---- MODULE Spec2Model ----
(***************************************************************************)
(* Model of the tts-server audio pipeline.                                 *)
(*                                                                         *)
(* Part I  : SoundDeviceAudioStreamAdapter (the capture hub) with its      *)
(*           _QueueReader handles, client threads and the capture callback *)
(*           thread of every input stream (src/example_of_sd_recording.py).*)
(* Part II : SynthPlayService.synthesize_and_play                          *)
(*           (src/tts_server/services/synth_play.py).                      *)
(* Part III: SoundDevicePlaybackAdapter and AudioPlaybackService.play_file *)
(*           (src/tts_server/adapters/audio/sounddevice.py,                *)
(*           src/tts_server/services/audio_playback.py).                   *)
(* Part IV : the /ws/synth-play WebSocket handler                          *)
(* Part V  : FileVoiceRepository (the metadata index of the voices)        *)
(*           (src/tts_server/api/main_router.py).                          *)
(***************************************************************************)
EXTENDS Integers, Sequences, FiniteSets, TLC

(***************************************************************************)
(* Bounds of the model.                                                    *)
(***************************************************************************)
NumClients == 2     \* client threads calling the hub's public operations
MaxOps     == 3     \* public operations begun, all clients together
MaxSubs    == 2     \* subscribe() calls
MaxStreams == 2     \* InputStream objects constructed by start()
MaxFrames  == 3     \* capture callbacks delivered
MaxFaults  == 1     \* hardware calls that raise

\* a short run for the progress properties (SpecLive)
LiveOps    == 4
LiveFrames == 1

\* a run with a restart of the stream (SpecRestart)
RestartOps    == 6
RestartFrames == 2

\* a run with two stop() calls or two subscribe() calls around a close() (SpecStop)
StopOps    == 4
StopFrames == 2

\* one capture session polled by its consumers (SpecPoll)
PollOps    == 6      \* start, subscribe, four reads
PollFrames == 2
ReadOps == 5         \* operations of a run of readers and close()
ReadFrames == 2      \* frames captured in such a run
LockOps == 3         \* operations of a run about the lock
LockFrames == 2      \* frames captured in such a run
DeviceOps == 3       \* operations of a run with device failures
DeviceFrames == 1    \* frames captured in such a run

\* one capture session read by two consumers (SpecSession)
SessionFrames == 5

\* playback (SpecPlay)
NumPlayers   == 2    \* concurrent callers of the playback driver
MaxPlayCalls == 3    \* play(), play_file() and stop() calls begun
AudioLen     == 2    \* blocks of audio in one playback
MaxFileCalls == 2    \* play_file() calls begun (SpecFile)

\* subscribe() on a stopped hub (SpecSubscribe)
SubscribeOps    == 4
SubscribeFrames == 2

\* close() of one reader among several (SpecClose)
CloseOps     == 4
CloseFrames  == 2

\* termination of stop() and close() (SpecAdmin)
AdminOps     == 3
AdminFrames  == 2

\* output device resolution (SpecResolve)
MaxDevices   == 2    \* devices sd.query_devices() lists
MaxIndex     == 1    \* largest configured AudioSettings.device_index

\* voice repository (SpecRepo)
NumTasks     == 2    \* concurrent callers of the repository
MaxRepoCalls == 3    \* save() and delete() calls begun

Clients   == 1..NumClients
SubIds    == 1..MaxSubs
StreamIds == 1..MaxStreams

\* max_frames arguments handed to subscribe(); 0 and -1 are clamped to
\* capacity 1
MaxFramesArgs == {-1, 0, 2}

\* subscribe(*, name, max_frames=1024)
DefaultMaxFrames == 1024

\* max_frames argument of the subscribers of SpecSession
SessionMaxFramesArgs == {5}

\* the consumers of SpecSession block until a frame arrives
SessionTimeouts == {-1}

\* timeout_seconds arguments handed to read(); TimeoutNone stands for None
TimeoutNone == -1
Timeouts    == {TimeoutNone, 0, 1}

\* what the audio runtime does on InputStream(...) followed by stream.start(),
\* and on stream.stop() or stream.close()
StartOutcomes == {"ok", "open_raises", "start_raises"}
\* what _get_device() meets: both queries answer, query_devices(0) raises,
\* or query_devices('pulse') raises
DeviceOutcomes == {"ok", "query_raises", "pulse_raises"}
CallOutcomes  == {"ok", "raises"}

\* the value read() returns for "no data" (Python None)
NoData == [uid |-> 0, seq |-> -1]

Players == 1..NumPlayers

\* request.audio_data handed to play(): 16-bit PCM, or a byte string of odd
\* length, which np.frombuffer(..., dtype=np.int16) rejects
PlayRequests == {"pcm", "odd_bytes"}

\* file_path arguments of play_file: absolute or not, existing or not, the
\* suffix, and the sample width in bytes of an existing .wav file
Suffixes == {".wav", ".WAV", ".txt"}
Lower(suffix) == IF suffix = ".WAV" THEN ".wav" ELSE suffix
Paths == {p \in [absolute : BOOLEAN, exists : BOOLEAN, suffix : Suffixes, width : {1, 2}] :
            (~p.exists \/ Lower(p.suffix) # ".wav") => p.width = 2}

\* AudioSettings.device_index: None, or an index; and the device names the
\* host may list, with str.lower() and the two substring tests on them
NoIndex == -1
DeviceIndexes == {NoIndex} \cup 0..MaxIndex
DeviceNames == {"HDA Intel PCH", "PulseAudio", "pulse", "PIPEWIRE", "default"}
LowerName(name) ==
    CASE name = "HDA Intel PCH" -> "hda intel pch"
      [] name = "PulseAudio"    -> "pulseaudio"
      [] name = "PIPEWIRE"      -> "pipewire"
      [] OTHER                  -> name
HasPulse(name) == name \in {"pulseaudio", "pulse"}
HasPipewire(name) == name = "pipewire"
DeviceLists == UNION {[1..n -> DeviceNames] : n \in 0..MaxDevices}
QueryOutcomes == {"ok", "raises"}
NotResolved == [done |-> FALSE, device |-> NoIndex, queried |-> FALSE, raised |-> FALSE]

\* the voices of the repository: every task saves and deletes its own voice
RepoTasks == 1..NumTasks

NoResult == [kind |-> "none", exc |-> "none"]
NoCall   == [n |-> 0, layer |-> "none", caller |-> 0,
             path |-> [absolute |-> FALSE, exists |-> FALSE, suffix |-> ".txt", width |-> 2],
             outcome |-> "none"]

VARIABLES
    lock,                \* self._lock: 0 when free, else the client holding it
    stream,              \* self._stream: 0 for None, else a stream id
    frame_sequence,      \* self._frame_sequence
    next_subscriber_id,  \* self._next_subscriber_id
    subscribers,         \* keys of self._subscribers
    closed,              \* _Subscriber.closed, per subscriber object
    queue,               \* _Subscriber.queue contents, per subscriber object
    maxsize,             \* queue.Queue(maxsize=...), per subscriber object
    streamState,         \* state of every InputStream object
    nextStream,          \* id of the next InputStream to be constructed
    selected_device_name, \* self._selected_device_name: "None" or a name
    pc,                  \* position of every client thread
    arg,                 \* subscriber id a client's close()/read() works on
    tmo,                 \* timeout_seconds of a client's read()
    lstream,             \* local `stream` of a client's stop()
    iter,                \* subscribers a client's stop() loop still visits
    cbpc,                \* position of every stream's callback thread
    cbframe,             \* frame built by a callback
    cbsubs,              \* `subs` snapshot a callback still iterates
    captured,            \* number of callbacks that took a sequence number
    got,                 \* results returned by read() so far, per handle
    drops,               \* frames dropped on queue.Full, per subscriber
    subAt,               \* value of `captured` when the subscriber was made
    issued,              \* ids returned by subscribe(), in order
    drained,             \* close()/stop() finished draining the subscriber
    stopFrom,            \* hub state a client's stop() found on entry
    raisedOps,           \* public operations that raised to their caller
    ops,                 \* public operations begun
    faults,              \* hardware calls that raised
    limit,               \* bounds of the run: operations and frames
    idem,                \* calls that found their work already done
    numbered,            \* sequence numbers given to each stream's frames
    subOn,               \* whether each subscribe() found the hub "stopped" or
                         \* "running", in the runs that record it (SpecSubscribe)
    opc,                 \* position of the synthesize_and_play coroutine
    oin,                 \* its arguments: on_state_change given or not, voice
    oexc,                \* the exception the `except` clause caught
    otts,                \* tts_response returned by synthesize
    oplayed,             \* duration_seconds of the status returned by play
    olog,                \* calls made so far: notifications, synthesize, play
    ores,                \* what the call returned or raised
    is_playing,          \* SoundDevicePlaybackAdapter._is_playing
    ppc,                 \* position of each caller of the playback driver
    pexc,                \* the exception in flight inside _play_sync
    pres,                \* what each caller's last call returned or raised
    sdOwner,             \* the caller whose audio sounddevice was last given
    sdLeft,              \* blocks of that audio still to be played
    lastCall,            \* the last play_file call: layer, path, outcome
    palone,              \* no other call began since this caller's call began
    victims,             \* the play calls in progress when each stop() began
    stopped,             \* a stop() begun during this play call has returned
    late,                \* audio of this call was played after that stop()
    pcalls,              \* calls begun
    pfaults,             \* sounddevice calls that raised
    wpc,                 \* position of the synth_play_websocket handler
    wconn,               \* the WebSocket: "new", "open" or "closed"
    wexc,                \* the exception the handler caught
    wvoice,              \* the `voice` the handler passes to the service
    wsent,               \* messages the handler itself sent, in order
    device_index,        \* AudioSettings.device_index, NoIndex for None
    devices,             \* names of the devices sd.query_devices() lists
    query,               \* what sd.query_devices() does: "ok" or "raises"
    resolved,            \* what _resolve_output_device did and returned
    metadata,            \* keys of the index in metadata.json
    voice_files,         \* the {uuid}.voice files in voices_dir
    rpc,                 \* position of every repository task
    rlocal,              \* the `metadata` dict a task read and edits
    present,             \* voices whose last completed call stored them
    rcalls               \* repository calls begun

hubVars == <<lock, stream, frame_sequence, next_subscriber_id, subscribers,
             closed, queue, maxsize, streamState, nextStream,
             selected_device_name>>
threadVars == <<pc, arg, tmo, lstream, iter>>
cbVars == <<cbpc, cbframe, cbsubs>>
histVars == <<captured, got, drops, subAt, issued, drained, stopFrom,
               raisedOps, ops, faults, limit, idem, numbered, subOn>>
orchVars == <<opc, oin, oexc, otts, oplayed, olog, ores>>
playVars == <<is_playing, ppc, pexc, pres, sdOwner, sdLeft, lastCall, palone,
              victims, stopped, late, pcalls, pfaults>>
wsVars == <<wpc, wconn, wexc, wvoice, wsent>>
devVars == <<device_index, devices, query, resolved>>
repoVars == <<metadata, voice_files, rpc, rlocal, present, rcalls>>
captureVars == <<hubVars, threadVars, cbVars, histVars>>
vars == <<captureVars, orchVars, playVars, wsVars, devVars, repoVars>>

(***************************************************************************)
(* Helpers                                                                 *)
(***************************************************************************)
Max(a, b) == IF a >= b THEN a ELSE b

MinOf(S) == CHOOSE x \in S : \A y \in S : x <= y

Values_First(S) == IF S = {} THEN <<>> ELSE <<MinOf(S)>>

\* list(self._subscribers.values()): dicts iterate in insertion order, and
\* ids are inserted in increasing order
RECURSIVE Values(_)
Values(S) == IF S = {} THEN <<>>
             ELSE <<MinOf(S)>> \o Values(S \ {MinOf(S)})

\* the frames among the results of read(), no-data results removed
RECURSIVE Frames(_)
Frames(s) == IF s = <<>> THEN <<>>
             ELSE IF Head(s) = NoData THEN Frames(Tail(s))
             ELSE <<Head(s)>> \o Frames(Tail(s))

Handles == 1..(next_subscriber_id - 1)

Dequeue_Lifo(q) == [item |-> q[Len(q)], rest |-> SubSeq(q, 1, Len(q) - 1)]

\* queue.Queue.get / get_nowait on a non-empty queue: first in, first out
Dequeue(q) == [item |-> Head(q), rest |-> Tail(q)]

PutNowait_DropOldest(q, cap, frame) ==
    IF Len(q) < cap THEN Append(q, frame) ELSE Append(Tail(q), frame)

\* queue.Queue.put_nowait: queue.Full leaves the queue as it was
PutNowait(q, cap, frame) == IF Len(q) < cap THEN Append(q, frame) ELSE q

NextId_Stuck(n) == n

\* self._next_subscriber_id += 1
NextId(n) == n + 1

Capacity_Unclamped(max_frames) == max_frames

\* maxsize = max(1, int(max_frames))
Capacity(max_frames) == Max(1, max_frames)

TypeOK ==
    /\ lock \in 0..NumClients
    /\ stream \in 0..MaxStreams
    /\ frame_sequence \in 0..limit.frames
    /\ next_subscriber_id \in 1..(MaxSubs + 1)
    /\ subscribers \subseteq SubIds
    /\ closed \in [SubIds -> BOOLEAN]
    /\ \A i \in SubIds : maxsize[i] >= 0 /\ Len(queue[i]) <= maxsize[i]
    /\ streamState \in [StreamIds -> {"none", "open", "active", "stopped", "closed"}]
    /\ captured \in 0..limit.frames

(***************************************************************************)
(* __init__                                                                *)
(***************************************************************************)
InitParts(l) ==
    /\ lock = 0
    /\ stream = 0
    /\ frame_sequence = 0
    /\ next_subscriber_id = 1
    /\ subscribers = {}
    /\ closed = [i \in SubIds |-> FALSE]
    /\ queue = [i \in SubIds |-> <<>>]
    /\ maxsize = [i \in SubIds |-> 0]
    /\ streamState = [s \in StreamIds |-> "none"]
    /\ nextStream = 1
    /\ selected_device_name = "None"
    /\ pc = [t \in Clients |-> "idle"]
    /\ arg = [t \in Clients |-> 0]
    /\ tmo = [t \in Clients |-> 0]
    /\ lstream = [t \in Clients |-> 0]
    /\ iter = [t \in Clients |-> <<>>]
    /\ cbpc = [s \in StreamIds |-> "idle"]
    /\ cbframe = [s \in StreamIds |-> NoData]
    /\ cbsubs = [s \in StreamIds |-> <<>>]
    /\ captured = 0
    /\ got = [i \in SubIds |-> <<>>]
    /\ drops = [i \in SubIds |-> 0]
    /\ subAt = [i \in SubIds |-> 0]
    /\ issued = <<>>
    /\ drained = [i \in SubIds |-> FALSE]
    /\ stopFrom = [t \in Clients |-> "none"]
    /\ raisedOps = {}
    /\ ops = 0
    /\ faults = 0
    /\ limit = l
    /\ idem = {}
    /\ numbered = [s \in StreamIds |-> <<>>]
    /\ opc = "idle"
    /\ oin = [cb |-> FALSE, voice |-> "none"]
    /\ oexc = "none"
    /\ otts = "none"
    /\ oplayed = 0
    /\ olog = <<>>
    /\ ores = [kind |-> "none", exc |-> "none", is_playing |-> FALSE, duration |-> 0]
    /\ is_playing = FALSE
    /\ ppc = [t \in Players |-> "idle"]
    /\ pexc = [t \in Players |-> "none"]
    /\ pres = [t \in Players |-> NoResult]
    /\ sdOwner = 0
    /\ sdLeft = 0
    /\ lastCall = NoCall
    /\ palone = [t \in Players |-> FALSE]
    /\ victims = [t \in Players |-> {}]
    /\ stopped = [t \in Players |-> FALSE]
    /\ late = [t \in Players |-> FALSE]
    /\ pcalls = 0
    /\ pfaults = 0
    /\ wpc = "connect"
    /\ wconn = "new"
    /\ wexc = "none"
    /\ wvoice = "none"
    /\ wsent = <<>>
    /\ metadata = {}
    /\ voice_files = {}
    /\ rpc = [k \in RepoTasks |-> "idle"]
    /\ rlocal = [k \in RepoTasks |-> {}]
    /\ present = {}
    /\ rcalls = 0

\* AudioSettings: device_index defaults to None
InitSettings(index, listed, outcome) ==
    /\ device_index = index
    /\ devices = listed
    /\ query = outcome
    /\ resolved = NotResolved

\* the history of subscribe() is recorded or not
InitHistory(recorded) ==
    subOn = [i \in SubIds |-> IF recorded THEN "none" ELSE "unrecorded"]

InitWith(l) ==
    InitParts(l) /\ InitSettings(NoIndex, <<>>, "ok") /\ InitHistory(FALSE)

Init == InitWith([ops |-> MaxOps, frames |-> MaxFrames])

\* a client begins a public operation; a budget of 0 calls leaves the calls
\* uncounted (the run is then bounded by the frames alone)
Begin(t) ==
    /\ pc[t] = "idle"
    /\ IF limit.ops = 0
         THEN ops' = ops
         ELSE ops < limit.ops /\ ops' = ops + 1

(***************************************************************************)
(* start(): the whole body runs under the lock and touches only state that *)
(* every other thread reads under the lock, so it is one step.             *)
(***************************************************************************)
\* `if self._stream is not None: return`
AlreadyRunning_Never(s) == FALSE

AlreadyRunning(s) == s # 0

\* _get_device(): the first query names the device, the second selects the
\* pulse device; an exception of either is logged and the name set so far
\* is kept
GetDevice(name, dev) == IF dev = "query_raises" THEN name ELSE "device 0"

Start_DeviceFatal(t, hw, dev) ==
    /\ Begin(t)
    /\ lock = 0
    /\ IF AlreadyRunning(stream)
       THEN /\ hw = "ok" /\ dev = "ok"
            /\ idem' = idem \cup {"start"}
            /\ UNCHANGED <<stream, frame_sequence, streamState, nextStream,
                           selected_device_name, raisedOps, faults>>
       ELSE /\ nextStream <= MaxStreams
            /\ hw # "ok" => faults < MaxFaults
            /\ frame_sequence' = 0
            /\ selected_device_name' = GetDevice(selected_device_name, dev)
            /\ faults' = IF hw = "ok" THEN faults ELSE faults + 1
            /\ raisedOps' = IF hw = "ok" /\ dev = "ok" THEN raisedOps
                            ELSE raisedOps \cup {"start"}
            /\ IF hw = "open_raises" \/ dev # "ok"
               THEN UNCHANGED <<stream, streamState, nextStream>>
               ELSE /\ stream' = nextStream
                    /\ streamState' = [streamState EXCEPT ![nextStream] =
                                         IF hw = "start_raises" THEN "open" ELSE "active"]
                    /\ nextStream' = nextStream + 1
            /\ UNCHANGED idem
    /\ UNCHANGED <<lock, next_subscriber_id, subscribers, closed, queue,
                   maxsize, threadVars, cbVars, captured, got, drops, subAt, issued,
                   drained, stopFrom, limit, subOn, numbered, orchVars, playVars, wsVars, devVars, repoVars>>

Start(t, hw, dev) ==
    /\ Begin(t)
    /\ lock = 0
    /\ IF AlreadyRunning(stream)
       THEN \* already running
            /\ hw = "ok" /\ dev = "ok"
            /\ idem' = idem \cup {"start"}
            /\ UNCHANGED <<stream, frame_sequence, streamState, nextStream,
                           selected_device_name, raisedOps, faults>>
       ELSE /\ nextStream <= MaxStreams
            /\ hw # "ok" => faults < MaxFaults
            /\ frame_sequence' = 0
            /\ selected_device_name' = GetDevice(selected_device_name, dev)
            /\ faults' = IF hw = "ok" THEN faults ELSE faults + 1
            /\ raisedOps' = IF hw = "ok" THEN raisedOps ELSE raisedOps \cup {"start"}
            /\ IF hw = "open_raises"
               THEN \* InputStream(...) raises: self._stream stays None
                    UNCHANGED <<stream, streamState, nextStream>>
               ELSE \* InputStream(...) constructed; stream.start() starts
                    \* it or raises
                    /\ stream' = nextStream
                    /\ streamState' = [streamState EXCEPT ![nextStream] =
                                         IF hw = "start_raises" THEN "open" ELSE "active"]
                    /\ nextStream' = nextStream + 1
            /\ UNCHANGED idem
    /\ UNCHANGED <<lock, next_subscriber_id, subscribers, closed, queue,
                   maxsize, threadVars, cbVars, captured, got, drops, subAt, issued,
                   drained, stopFrom, limit, subOn, numbered, orchVars, playVars, wsVars, devVars, repoVars>>

(***************************************************************************)
(* subscribe(name, max_frames)                                             *)
(***************************************************************************)
Subscribe(t, max_frames) ==
    /\ Begin(t)
    /\ lock = 0
    /\ next_subscriber_id <= MaxSubs
    /\ LET subscriber_id == next_subscriber_id IN
        /\ next_subscriber_id' = NextId(next_subscriber_id)
        /\ subscribers' = subscribers \cup {subscriber_id}
        /\ maxsize' = [maxsize EXCEPT ![subscriber_id] = Capacity(max_frames)]
        /\ queue' = [queue EXCEPT ![subscriber_id] = <<>>]
        /\ closed' = [closed EXCEPT ![subscriber_id] = FALSE]
        /\ subAt' = [subAt EXCEPT ![subscriber_id] = captured]
        /\ issued' = Append(issued, subscriber_id)
        /\ subOn' = IF subOn[subscriber_id] = "unrecorded" THEN subOn
                     ELSE [subOn EXCEPT ![subscriber_id] =
                             IF stream = 0 THEN "stopped" ELSE "running"]
    /\ UNCHANGED <<lock, stream, frame_sequence, streamState, nextStream,
                   selected_device_name, threadVars, cbVars, captured, got,
                   drops, drained, stopFrom, raisedOps, faults, limit, idem,
                   numbered, orchVars, playVars, wsVars, devVars, repoVars>>

(***************************************************************************)
(* stop()                                                                  *)
(***************************************************************************)
StopLock(t) ==
    /\ Begin(t)
    /\ lock = 0
    /\ lock' = t
    /\ lstream' = [lstream EXCEPT ![t] = stream]
    /\ stream' = 0
    /\ iter' = [iter EXCEPT ![t] = Values(subscribers)]
    /\ pc' = [pc EXCEPT ![t] = IF subscribers = {} THEN "stop_clear" ELSE "stop_mark"]
    /\ stopFrom' = [stopFrom EXCEPT ![t] =
                      IF stream = 0 /\ subscribers = {} THEN "stopped" ELSE "live"]
    /\ UNCHANGED <<frame_sequence, next_subscriber_id, subscribers, closed,
                   queue, maxsize, selected_device_name, streamState, nextStream, arg, tmo, cbVars,
                   captured, got, drops, subAt, issued, drained, raisedOps,
                   faults, limit, subOn, idem, numbered, orchVars, playVars, wsVars, devVars, repoVars>>

\* sub.closed = True
StopMark(t) ==
    /\ pc[t] = "stop_mark"
    /\ closed' = [closed EXCEPT ![Head(iter[t])] = TRUE]
    /\ pc' = [pc EXCEPT ![t] = "stop_drain"]
    /\ UNCHANGED <<lock, stream, frame_sequence, next_subscriber_id,
                   subscribers, queue, maxsize, selected_device_name, streamState, nextStream,
                   arg, tmo, lstream, iter, cbVars, histVars, orchVars, playVars, wsVars, devVars, repoVars>>

StopDrain_NoBreak(t) ==
    /\ pc[t] = "stop_drain"
    /\ LET sub == Head(iter[t]) IN
        IF queue[sub] # <<>>
        THEN queue' = [queue EXCEPT ![sub] = Dequeue(@).rest]
        ELSE UNCHANGED queue
    /\ UNCHANGED <<pc, iter, drained>>
    /\ UNCHANGED <<lock, stream, frame_sequence, next_subscriber_id,
                   subscribers, closed, maxsize, selected_device_name, streamState, nextStream,
                   arg, tmo, lstream, cbVars, captured, got, drops, subAt, issued,
                   stopFrom, raisedOps, ops, faults, limit, subOn, idem, numbered, orchVars, playVars, wsVars, devVars, repoVars>>

\* one sub.queue.get_nowait() of the drain loop
StopDrain(t) ==
    /\ pc[t] = "stop_drain"
    /\ LET sub == Head(iter[t]) IN
        IF queue[sub] # <<>>
        THEN /\ queue' = [queue EXCEPT ![sub] = Dequeue(@).rest]
             /\ UNCHANGED <<pc, iter, drained>>
        ELSE \* queue.Empty: break, next subscriber
             /\ drained' = [drained EXCEPT ![sub] = TRUE]
             /\ iter' = [iter EXCEPT ![t] = Tail(@)]
             /\ pc' = [pc EXCEPT ![t] =
                         IF Tail(iter[t]) = <<>> THEN "stop_clear" ELSE "stop_mark"]
             /\ UNCHANGED queue
    /\ UNCHANGED <<lock, stream, frame_sequence, next_subscriber_id,
                   subscribers, closed, maxsize, selected_device_name, streamState, nextStream,
                   arg, tmo, lstream, cbVars, captured, got, drops, subAt, issued,
                   stopFrom, raisedOps, ops, faults, limit, subOn, idem, numbered, orchVars, playVars, wsVars, devVars, repoVars>>

StopClear_KeepSubscribers(t) ==
    /\ pc[t] = "stop_clear"
    /\ UNCHANGED subscribers
    /\ lock' = 0
    /\ pc' = [pc EXCEPT ![t] = IF lstream[t] = 0 THEN "idle" ELSE "stop_stream"]
    /\ stopFrom' = [stopFrom EXCEPT ![t] = IF lstream[t] = 0 THEN "none" ELSE @]
    /\ UNCHANGED <<stream, frame_sequence, next_subscriber_id, closed, queue,
                   maxsize, selected_device_name, streamState, nextStream, arg, tmo, lstream, iter,
                   cbVars, captured, got, drops, subAt, issued, drained, raisedOps, ops, faults, limit, subOn, idem, numbered, orchVars, playVars, wsVars, devVars, repoVars>>

\* self._subscribers.clear(), the lock is released, `if stream is None: return`
StopClear(t) ==
    /\ pc[t] = "stop_clear"
    /\ subscribers' = {}
    /\ lock' = 0
    /\ pc' = [pc EXCEPT ![t] = IF lstream[t] = 0 THEN "idle" ELSE "stop_stream"]
    /\ stopFrom' = [stopFrom EXCEPT ![t] = IF lstream[t] = 0 THEN "none" ELSE @]
    /\ UNCHANGED <<stream, frame_sequence, next_subscriber_id, closed, queue,
                   maxsize, selected_device_name, streamState, nextStream, arg, tmo, lstream, iter,
                   cbVars, captured, got, drops, subAt, issued, drained, raisedOps, ops, faults, limit, subOn, idem, numbered, orchVars, playVars, wsVars, devVars, repoVars>>

\* stream.stop(); an exception is logged
StopStream(t, hw) ==
    /\ pc[t] = "stop_stream"
    /\ hw # "ok" => faults < MaxFaults
    /\ faults' = IF hw = "ok" THEN faults ELSE faults + 1
    /\ streamState' = IF hw = "ok"
                      THEN [streamState EXCEPT ![lstream[t]] = "stopped"]
                      ELSE streamState
    /\ pc' = [pc EXCEPT ![t] = "stop_close"]
    /\ UNCHANGED <<lock, stream, frame_sequence, next_subscriber_id,
                   subscribers, closed, queue, maxsize, selected_device_name, nextStream, arg, tmo,
                   lstream, iter, cbVars, captured, got, drops, subAt, issued,
                   drained, stopFrom, raisedOps, ops, limit, subOn, idem, numbered, orchVars, playVars, wsVars, devVars, repoVars>>

\* stream.close(); an exception is logged
StopClose(t, hw) ==
    /\ pc[t] = "stop_close"
    /\ hw # "ok" => faults < MaxFaults
    /\ faults' = IF hw = "ok" THEN faults ELSE faults + 1
    /\ streamState' = IF hw = "ok"
                      THEN [streamState EXCEPT ![lstream[t]] = "closed"]
                      ELSE streamState
    /\ pc' = [pc EXCEPT ![t] = "idle"]
    /\ lstream' = [lstream EXCEPT ![t] = 0]
    /\ stopFrom' = [stopFrom EXCEPT ![t] = "none"]
    /\ UNCHANGED <<lock, stream, frame_sequence, next_subscriber_id,
                   subscribers, closed, queue, maxsize, selected_device_name, nextStream, arg, tmo,
                   iter, cbVars, captured, got, drops, subAt, issued, drained,
                   raisedOps, ops, limit, subOn, idem, numbered, orchVars, playVars, wsVars, devVars, repoVars>>

(***************************************************************************)
(* _QueueReader.close() -> _close_subscriber(subscriber_id)                *)
(***************************************************************************)
\* the lock is taken, the subscriber popped from the table and marked closed
CloseLock_RaiseOnMissing(t, subscriber_id) ==
    /\ Begin(t)
    /\ subscriber_id \in Handles
    /\ lock = 0
    /\ IF subscriber_id \notin subscribers
       THEN \* sub is None: return
            /\ idem' = idem \cup {"close"}
            /\ raisedOps' = raisedOps \cup {"close"}
            /\ UNCHANGED <<lock, subscribers, closed, pc, arg>>
       ELSE /\ subscribers' = subscribers \ {subscriber_id}
            /\ closed' = [closed EXCEPT ![subscriber_id] = TRUE]
            /\ lock' = t
            /\ arg' = [arg EXCEPT ![t] = subscriber_id]
            /\ pc' = [pc EXCEPT ![t] = "close_drain"]
            /\ UNCHANGED <<idem, raisedOps>>
    /\ UNCHANGED <<stream, frame_sequence, next_subscriber_id, queue, maxsize,
                   selected_device_name, streamState, nextStream, tmo, lstream,
                   iter, cbVars, captured, got, drops, subAt, issued, drained,
                   stopFrom, faults, limit, subOn, numbered, orchVars,
                   playVars, wsVars, devVars, repoVars>>

CloseLock(t, subscriber_id) ==
    /\ Begin(t)
    /\ subscriber_id \in Handles
    /\ lock = 0
    /\ IF subscriber_id \notin subscribers
       THEN \* sub is None: return
            /\ idem' = idem \cup {"close"}
            /\ UNCHANGED <<lock, subscribers, closed, pc, arg>>
       ELSE /\ subscribers' = subscribers \ {subscriber_id}
            /\ closed' = [closed EXCEPT ![subscriber_id] = TRUE]
            /\ lock' = t
            /\ arg' = [arg EXCEPT ![t] = subscriber_id]
            /\ pc' = [pc EXCEPT ![t] = "close_drain"]
            /\ UNCHANGED idem
    /\ UNCHANGED <<stream, frame_sequence, next_subscriber_id, queue, maxsize,
                   selected_device_name, streamState, nextStream, tmo, lstream,
                   iter, cbVars, captured, got, drops, subAt, issued, drained,
                   stopFrom, raisedOps, faults, limit, subOn, numbered, orchVars,
                   playVars, wsVars, devVars, repoVars>>

CloseDrain_EveryQueue(t) ==
    /\ pc[t] = "close_drain"
    /\ LET sub == arg[t] IN
        IF queue[sub] # <<>>
        THEN /\ queue' = [j \in SubIds |-> IF queue[j] = <<>> THEN <<>> ELSE Dequeue(queue[j]).rest]
             /\ UNCHANGED <<pc, arg, lock, drained>>
        ELSE /\ drained' = [drained EXCEPT ![sub] = TRUE]
             /\ lock' = 0
             /\ arg' = [arg EXCEPT ![t] = 0]
             /\ pc' = [pc EXCEPT ![t] = "idle"]
             /\ UNCHANGED queue
    /\ UNCHANGED <<stream, frame_sequence, next_subscriber_id, subscribers,
                   closed, maxsize, selected_device_name, streamState, nextStream, tmo, lstream,
                   iter, cbVars, captured, got, drops, subAt, issued, stopFrom, raisedOps, ops, faults, limit, subOn, idem, numbered, orchVars, playVars, wsVars, devVars, repoVars>>

\* one sub.queue.get_nowait() of the drain loop; queue.Empty ends the call
CloseDrain(t) ==
    /\ pc[t] = "close_drain"
    /\ LET sub == arg[t] IN
        IF queue[sub] # <<>>
        THEN /\ queue' = [queue EXCEPT ![sub] = Dequeue(@).rest]
             /\ UNCHANGED <<pc, arg, lock, drained>>
        ELSE /\ drained' = [drained EXCEPT ![sub] = TRUE]
             /\ lock' = 0
             /\ arg' = [arg EXCEPT ![t] = 0]
             /\ pc' = [pc EXCEPT ![t] = "idle"]
             /\ UNCHANGED queue
    /\ UNCHANGED <<stream, frame_sequence, next_subscriber_id, subscribers,
                   closed, maxsize, selected_device_name, streamState, nextStream, tmo, lstream,
                   iter, cbVars, captured, got, drops, subAt, issued, stopFrom, raisedOps, ops, faults, limit, subOn, idem, numbered, orchVars, playVars, wsVars, devVars, repoVars>>

(***************************************************************************)
(* _QueueReader.read(timeout_seconds)                                      *)
(***************************************************************************)
Return(t, sub, frame) ==
    /\ got' = [got EXCEPT ![sub] = Append(@, frame)]
    /\ pc' = [pc EXCEPT ![t] = "idle"]
    /\ arg' = [arg EXCEPT ![t] = 0]
    /\ tmo' = [tmo EXCEPT ![t] = 0]

\* subscriber = self._owner._get_subscriber(id); `subscriber is None`
ReadLookup(t, subscriber_id, timeout_seconds) ==
    /\ Begin(t)
    /\ subscriber_id \in Handles
    /\ lock = 0
    /\ IF subscriber_id \notin subscribers
       THEN Return(t, subscriber_id, NoData)
       ELSE /\ pc' = [pc EXCEPT ![t] = "read_check"]
            /\ arg' = [arg EXCEPT ![t] = subscriber_id]
            /\ tmo' = [tmo EXCEPT ![t] = timeout_seconds]
            /\ UNCHANGED got
    /\ UNCHANGED <<hubVars, lstream, iter, cbVars, captured, drops, subAt, issued,
                   drained, stopFrom, raisedOps, faults, limit, subOn, idem, numbered, orchVars, playVars, wsVars, devVars, repoVars>>

\* `subscriber.closed`
ReadCheck(t) ==
    /\ pc[t] = "read_check"
    /\ IF closed[arg[t]]
       THEN Return(t, arg[t], NoData)
       ELSE /\ pc' = [pc EXCEPT ![t] = "read_get"]
            /\ UNCHANGED <<arg, tmo, got>>
    /\ UNCHANGED <<hubVars, lstream, iter, cbVars, captured, drops, subAt, issued,
                   drained, stopFrom, raisedOps, ops, faults, limit, subOn, idem, numbered, orchVars, playVars, wsVars, devVars, repoVars>>

\* the timeout handed to queue.get: max(float(timeout_seconds), 0.0)
GetTimeout(timeout_seconds) == Max(timeout_seconds, 0)

ReadTake_Peek(t) ==
    /\ pc[t] = "read_get"
    /\ LET sub == arg[t] IN
        IF queue[sub] # <<>>
        THEN /\ UNCHANGED queue
             /\ Return(t, sub, Dequeue(queue[sub]).item)
        ELSE /\ tmo[t] # TimeoutNone
             /\ GetTimeout(tmo[t]) >= 0
             /\ Return(t, sub, NoData)
             /\ UNCHANGED queue
    /\ UNCHANGED <<lock, stream, frame_sequence, next_subscriber_id,
                   subscribers, closed, maxsize, selected_device_name, streamState, nextStream,
                   lstream, iter, cbVars, captured, drops, subAt, issued, drained,
                   stopFrom, raisedOps, ops, faults, limit, subOn, idem, numbered, orchVars, playVars, wsVars, devVars, repoVars>>

\* queue.get() / get_nowait() / get(timeout=...): a frame when there is one;
\* queue.Empty -> None when the call does not block for ever
ReadTake(t) ==
    /\ pc[t] = "read_get"
    /\ LET sub == arg[t] IN
        IF queue[sub] # <<>>
        THEN /\ queue' = [queue EXCEPT ![sub] = Dequeue(@).rest]
             /\ Return(t, sub, Dequeue(queue[sub]).item)
        ELSE /\ tmo[t] # TimeoutNone
             /\ GetTimeout(tmo[t]) >= 0
             /\ Return(t, sub, NoData)
             /\ UNCHANGED queue
    /\ UNCHANGED <<lock, stream, frame_sequence, next_subscriber_id,
                   subscribers, closed, maxsize, selected_device_name, streamState, nextStream,
                   lstream, iter, cbVars, captured, drops, subAt, issued, drained,
                   stopFrom, raisedOps, ops, faults, limit, subOn, idem, numbered, orchVars, playVars, wsVars, devVars, repoVars>>

\* read() as one step, for the runs in which nothing closes a subscriber:
\* there the lookup and the `closed` test see what the get sees, and no other
\* thread sees the reader between them
Read(t, subscriber_id, timeout_seconds) ==
    /\ Begin(t)
    /\ subscriber_id \in Handles
    /\ lock = 0
    /\ IF subscriber_id \notin subscribers \/ closed[subscriber_id]
       THEN Return(t, subscriber_id, NoData) /\ UNCHANGED queue
       ELSE IF queue[subscriber_id] # <<>>
       THEN /\ queue' = [queue EXCEPT ![subscriber_id] = Dequeue(@).rest]
            /\ Return(t, subscriber_id, Dequeue(queue[subscriber_id]).item)
       ELSE /\ timeout_seconds # TimeoutNone
            /\ GetTimeout(timeout_seconds) >= 0
            /\ Return(t, subscriber_id, NoData)
            /\ UNCHANGED queue
    /\ UNCHANGED <<lock, stream, frame_sequence, next_subscriber_id,
                   subscribers, closed, maxsize, selected_device_name, streamState, nextStream,
                   lstream, iter, cbVars, captured, drops, subAt, issued, drained,
                   stopFrom, raisedOps, faults, limit, subOn, idem, numbered, orchVars, playVars, wsVars, devVars, repoVars>>

\* the sequence number and the snapshot taken without the lock
CbEnter_NoLock(s) ==
    /\ streamState[s] = "active"
    /\ cbpc[s] = "idle"
    /\ captured < limit.frames
    /\ captured' = captured + 1
    /\ frame_sequence' = frame_sequence + 1
    /\ cbframe' = [cbframe EXCEPT ![s] =
                     IF subscribers = {} THEN NoData
                     ELSE [uid |-> captured + 1, seq |-> frame_sequence]]
    /\ cbsubs' = [cbsubs EXCEPT ![s] = Values(subscribers)]
    /\ cbpc' = [cbpc EXCEPT ![s] = IF subscribers = {} THEN "idle" ELSE "check"]
    /\ numbered' = [numbered EXCEPT ![s] = Append(@, frame_sequence)]
    /\ UNCHANGED <<lock, stream, next_subscriber_id, subscribers, closed,
                   queue, maxsize, selected_device_name, streamState, nextStream,
                   threadVars, got, drops, subAt, issued, drained, stopFrom,
                   raisedOps, ops, faults, limit, subOn, idem, orchVars, playVars, wsVars, devVars, repoVars>>

(***************************************************************************)
(* _callback, run by the audio runtime on the thread of an active stream   *)
(***************************************************************************)
\* with self._lock: seq, self._frame_sequence += 1, subs = list(...)
CbEnter(s) ==
    /\ streamState[s] = "active"
    /\ cbpc[s] = "idle"
    /\ lock = 0
    /\ captured < limit.frames
    /\ captured' = captured + 1
    /\ frame_sequence' = frame_sequence + 1
    /\ cbframe' = [cbframe EXCEPT ![s] =
                     IF subscribers = {} THEN NoData
                     ELSE [uid |-> captured + 1, seq |-> frame_sequence]]
    /\ cbsubs' = [cbsubs EXCEPT ![s] = Values(subscribers)]
    /\ cbpc' = [cbpc EXCEPT ![s] = IF subscribers = {} THEN "idle" ELSE "check"]
    /\ numbered' = [numbered EXCEPT ![s] = Append(@, frame_sequence)]
    /\ UNCHANGED <<lock, stream, next_subscriber_id, subscribers, closed,
                   queue, maxsize, selected_device_name, streamState, nextStream,
                   threadVars, got, drops, subAt, issued, drained, stopFrom,
                   raisedOps, ops, faults, limit, subOn, idem, orchVars, playVars, wsVars, devVars, repoVars>>

CbAdvance(s) ==
    /\ cbsubs' = [cbsubs EXCEPT ![s] = Tail(@)]
    /\ cbpc' = [cbpc EXCEPT ![s] = IF Tail(cbsubs[s]) = <<>> THEN "idle" ELSE "check"]
    /\ cbframe' = [cbframe EXCEPT ![s] = IF Tail(cbsubs[s]) = <<>> THEN NoData ELSE @]

\* `if sub.closed: continue`
CbCheck(s) ==
    /\ cbpc[s] = "check"
    /\ IF closed[Head(cbsubs[s])]
       THEN CbAdvance(s)
       ELSE /\ cbpc' = [cbpc EXCEPT ![s] = "put"]
            /\ UNCHANGED <<cbframe, cbsubs>>
    /\ UNCHANGED <<hubVars, threadVars, histVars, orchVars, playVars, wsVars, devVars, repoVars>>

\* sub.queue.put_nowait(frame); queue.Full is logged and the loop goes on
CbPut_AbortOnFull(s) ==
    /\ cbpc[s] = "put"
    /\ LET sub == Head(cbsubs[s]) IN
        /\ queue' = [queue EXCEPT ![sub] = PutNowait(@, maxsize[sub], cbframe[s])]
        /\ drops' = [drops EXCEPT ![sub] =
                       IF Len(queue[sub]) < maxsize[sub] THEN @ ELSE @ + 1]
        /\ IF Len(queue[sub]) < maxsize[sub]
           THEN CbAdvance(s)
           ELSE /\ cbsubs' = [cbsubs EXCEPT ![s] = <<>>]
                /\ cbpc' = [cbpc EXCEPT ![s] = "idle"]
                /\ cbframe' = [cbframe EXCEPT ![s] = NoData]
    /\ UNCHANGED <<lock, stream, frame_sequence, next_subscriber_id,
                   subscribers, closed, maxsize, selected_device_name, streamState, nextStream,
                   threadVars, captured, got, subAt, issued, drained, stopFrom,
                   raisedOps, ops, faults, limit, subOn, idem, numbered, orchVars, playVars, wsVars, devVars, repoVars>>

CbPut(s) ==
    /\ cbpc[s] = "put"
    /\ LET sub == Head(cbsubs[s]) IN
        /\ queue' = [queue EXCEPT ![sub] = PutNowait(@, maxsize[sub], cbframe[s])]
        /\ drops' = [drops EXCEPT ![sub] =
                       IF Len(queue[sub]) < maxsize[sub] THEN @ ELSE @ + 1]
    /\ CbAdvance(s)
    /\ UNCHANGED <<lock, stream, frame_sequence, next_subscriber_id,
                   subscribers, closed, maxsize, selected_device_name, streamState, nextStream,
                   threadVars, captured, got, subAt, issued, drained, stopFrom,
                   raisedOps, ops, faults, limit, subOn, idem, numbered, orchVars, playVars, wsVars, devVars, repoVars>>

(***************************************************************************)
(* Specification of the hub                                                *)
(***************************************************************************)
Next ==
    \/ \E t \in Clients : \E hw \in StartOutcomes : Start(t, hw, "ok")
    \/ \E t \in Clients : \E m \in MaxFramesArgs : Subscribe(t, m)
    \/ \E t \in Clients : StopLock(t)
    \/ \E t \in Clients : StopMark(t)
    \/ \E t \in Clients : StopDrain(t)
    \/ \E t \in Clients : StopClear(t)
    \/ \E t \in Clients : \E hw \in CallOutcomes : StopStream(t, hw)
    \/ \E t \in Clients : \E hw \in CallOutcomes : StopClose(t, hw)
    \/ \E t \in Clients : \E i \in SubIds : CloseLock(t, i)
    \/ \E t \in Clients : CloseDrain(t)
    \/ \E t \in Clients : \E i \in SubIds : \E w \in Timeouts : ReadLookup(t, i, w)
    \/ \E t \in Clients : ReadCheck(t)
    \/ \E t \in Clients : ReadTake(t)
    \/ \E s \in StreamIds : CbEnter(s)
    \/ \E s \in StreamIds : CbCheck(s)
    \/ \E s \in StreamIds : CbPut(s)

Spec == Init /\ [][Next]_vars

(***************************************************************************)
(* One capture session: start(), subscribe(), capture callbacks and reads, *)
(* no stop() and no close().  Every read blocks until a frame arrives, so  *)
(* the frames bound the run and the calls are left uncounted.  The device  *)
(* opens and starts: a session that failed to start captures nothing.      *)
(* Nothing closes a subscriber, so a read is one step; the callback still  *)
(* pushes to one subscriber at a time, outside the lock.                   *)
(***************************************************************************)
InitSession == InitWith([ops |-> 0, frames |-> SessionFrames])

NextSession ==
    \/ \E t \in Clients : Start(t, "ok", "ok")
    \/ \E t \in Clients : \E m \in SessionMaxFramesArgs : Subscribe(t, m)
    \/ \E t \in Clients : \E i \in SubIds : \E w \in SessionTimeouts : Read(t, i, w)
    \/ \E s \in StreamIds : CbEnter(s)
    \/ \E s \in StreamIds : CbCheck(s)
    \/ \E s \in StreamIds : CbPut(s)

SpecSession == InitSession /\ [][NextSession]_vars

(***************************************************************************)
(* The same hub under the scheduling the threads get: a client thread that *)
(* is inside an operation and can take its next step eventually takes it,  *)
(* and so does a callback thread.  Nothing obliges a client to call.        *)
(***************************************************************************)
InitLive == InitWith([ops |-> LiveOps, frames |-> LiveFrames])

ClientProgress(t) ==
    \/ StopMark(t) \/ StopDrain(t) \/ StopClear(t) \/ (\E hw \in CallOutcomes : StopStream(t, hw))
    \/ (\E hw \in CallOutcomes : StopClose(t, hw))
    \/ CloseDrain(t)
    \/ ReadCheck(t) \/ ReadTake(t)

CallbackProgress(s) == CbCheck(s) \/ CbPut(s)

SpecLive ==
    /\ InitLive
    /\ [][Next]_vars
    /\ \A t \in Clients : WF_vars(ClientProgress(t))
    /\ \A s \in StreamIds : WF_vars(CallbackProgress(s))

(***************************************************************************)
(* Longer runs, long enough for a stop() followed by a second start() and  *)
(* two reads: the audio runtime does not fail, every subscriber has        *)
(* capacity 2 and every read polls.                                        *)
(***************************************************************************)
InitRestart == InitWith([ops |-> RestartOps, frames |-> RestartFrames])

NextRestart ==
    \/ \E t \in Clients : Start(t, "ok", "ok")
    \/ \E t \in Clients : Subscribe(t, 2)
    \/ \E t \in Clients : StopLock(t)
    \/ \E t \in Clients : StopMark(t)
    \/ \E t \in Clients : StopDrain(t)
    \/ \E t \in Clients : StopClear(t)
    \/ \E t \in Clients : StopStream(t, "ok")
    \/ \E t \in Clients : StopClose(t, "ok")
    \/ \E t \in Clients : \E i \in SubIds : CloseLock(t, i)
    \/ \E t \in Clients : CloseDrain(t)
    \/ \E t \in Clients : \E i \in SubIds : ReadLookup(t, i, 0)
    \/ \E t \in Clients : ReadCheck(t)
    \/ \E t \in Clients : ReadTake(t)
    \/ \E s \in StreamIds : CbEnter(s)
    \/ \E s \in StreamIds : CbCheck(s)
    \/ \E s \in StreamIds : CbPut(s)

SpecRestart == InitRestart /\ [][NextRestart]_vars

\* a shorter run of the same calls, in which the stream's stop() and close()
\* may raise
InitStop == InitWith([ops |-> StopOps, frames |-> StopFrames])

NextStop ==
    \/ \E t \in Clients : Start(t, "ok", "ok")
    \/ \E t \in Clients : Subscribe(t, 2)
    \/ \E t \in Clients : StopLock(t)
    \/ \E t \in Clients : StopMark(t)
    \/ \E t \in Clients : StopDrain(t)
    \/ \E t \in Clients : StopClear(t)
    \/ \E t \in Clients : \E hw \in CallOutcomes : StopStream(t, hw)
    \/ \E t \in Clients : \E hw \in CallOutcomes : StopClose(t, hw)
    \/ \E t \in Clients : \E i \in SubIds : CloseLock(t, i)
    \/ \E t \in Clients : CloseDrain(t)
    \/ \E t \in Clients : \E i \in SubIds : ReadLookup(t, i, 0)
    \/ \E t \in Clients : ReadCheck(t)
    \/ \E t \in Clients : ReadTake(t)
    \/ \E s \in StreamIds : CbEnter(s)
    \/ \E s \in StreamIds : CbCheck(s)
    \/ \E s \in StreamIds : CbPut(s)

SpecStop == InitStop /\ [][NextStop]_vars

\* the same operations, in the runs that close one reader of two
InitClose == InitWith([ops |-> CloseOps, frames |-> CloseFrames])

SpecClose == InitClose /\ [][NextStop]_vars

\* the same operations, with the state of the hub at every subscribe()
\* recorded
InitSubscribe ==
    /\ InitParts([ops |-> SubscribeOps, frames |-> SubscribeFrames])
    /\ InitSettings(NoIndex, <<>>, "ok")
    /\ InitHistory(TRUE)

SpecSubscribe == InitSubscribe /\ [][NextStop]_vars

\* the hub under the same scheduling, in runs long enough for a stop() to
\* drain a queue that a callback in flight is still pushing to
InitAdmin == InitWith([ops |-> AdminOps, frames |-> AdminFrames])

SpecAdmin ==
    /\ InitAdmin
    /\ [][NextStop]_vars
    /\ \A t \in Clients : WF_vars(ClientProgress(t))
    /\ \A s \in StreamIds : WF_vars(CallbackProgress(s))

\* the same calls in runs of three operations, long enough for a stop() or
\* a close() to hold the lock while a callback is between its snapshot and
\* its push
InitLock == InitWith([ops |-> LockOps, frames |-> LockFrames])

SpecLock == InitLock /\ [][NextStop]_vars

(***************************************************************************)
(* start() and stop() with everything the audio runtime may answer: the    *)
(* device queries, the construction and the start of the stream and its    *)
(* stop() and close() may raise.  Subscribers have capacity 2 and are not  *)
(* read.                                                                   *)
(***************************************************************************)
InitDevice == InitWith([ops |-> DeviceOps, frames |-> DeviceFrames])

NextDevice ==
    \/ \E t \in Clients : \E hw \in StartOutcomes :
          \E dev \in DeviceOutcomes : Start(t, hw, dev)
    \/ \E t \in Clients : Subscribe(t, 2)
    \/ \E t \in Clients : StopLock(t)
    \/ \E t \in Clients : StopMark(t)
    \/ \E t \in Clients : StopDrain(t)
    \/ \E t \in Clients : StopClear(t)
    \/ \E t \in Clients : \E hw \in CallOutcomes : StopStream(t, hw)
    \/ \E t \in Clients : \E hw \in CallOutcomes : StopClose(t, hw)
    \/ \E s \in StreamIds : CbEnter(s)
    \/ \E s \in StreamIds : CbCheck(s)
    \/ \E s \in StreamIds : CbPut(s)

SpecDevice == InitDevice /\ [][NextDevice]_vars

(***************************************************************************)
(* One capture session polled by its consumers: start(), subscribe(),      *)
(* capture callbacks and read(0) in its three steps, no stop() and no      *)
(* close(); every subscriber has capacity 2.                               *)
(***************************************************************************)
InitPoll == InitWith([ops |-> PollOps, frames |-> PollFrames])

NextPoll ==
    \/ \E t \in Clients : Start(t, "ok", "ok")
    \/ \E t \in Clients : Subscribe(t, 2)
    \/ \E t \in Clients : \E i \in SubIds : ReadLookup(t, i, 0)
    \/ \E t \in Clients : ReadCheck(t)
    \/ \E t \in Clients : ReadTake(t)
    \/ \E s \in StreamIds : CbEnter(s)
    \/ \E s \in StreamIds : CbCheck(s)
    \/ \E s \in StreamIds : CbPut(s)

SpecPoll == InitPoll /\ [][NextPoll]_vars

(***************************************************************************)
(* Readers and close(): start(), subscribe(), capture callbacks, read(0)   *)
(* in its three steps and close() in its two, no stop(); every subscriber  *)
(* has capacity 2.                                                         *)
(***************************************************************************)
InitRead == InitWith([ops |-> ReadOps, frames |-> ReadFrames])

NextRead ==
    \/ \E t \in Clients : Start(t, "ok", "ok")
    \/ \E t \in Clients : Subscribe(t, 2)
    \/ \E t \in Clients : \E i \in SubIds : CloseLock(t, i)
    \/ \E t \in Clients : CloseDrain(t)
    \/ \E t \in Clients : \E i \in SubIds : ReadLookup(t, i, 0)
    \/ \E t \in Clients : ReadCheck(t)
    \/ \E t \in Clients : ReadTake(t)
    \/ \E s \in StreamIds : CbEnter(s)
    \/ \E s \in StreamIds : CbCheck(s)
    \/ \E s \in StreamIds : CbPut(s)

SpecRead == InitRead /\ [][NextRead]_vars

(***************************************************************************)
(* Part II: SynthPlayService.synthesize_and_play.  Every `await` is a step. *)
(* The TTS engine, the playback driver and the state callback are the      *)
(* environment: each call returns or raises.                               *)
(***************************************************************************)
Voices    == {"none", "v1"}        \* the `voice` argument: None or a VoiceModel
Responses == {"pcm1", "pcm2"}      \* TTSResponse values synthesize may return
Durations == {1, 2}                \* duration_seconds play may report

LogEntry(ev, ok, info) == [ev |-> ev, ok |-> ok, info |-> info]

\* synthesize_and_play(text, language, voice, on_state_change) is called
OCall(cb, voice) ==
    /\ opc \in {"idle", "done"}
    /\ opc' = "notify_synth"
    /\ oin' = [cb |-> cb, voice |-> voice]
    /\ oexc' = "none"
    /\ otts' = "none"
    /\ oplayed' = 0
    /\ olog' = <<>>
    /\ ores' = [kind |-> "none", exc |-> "none", is_playing |-> FALSE, duration |-> 0]
    /\ UNCHANGED <<captureVars, playVars, wsVars, devVars, repoVars>>

ORaise_Retry(exc) ==
    /\ opc' = "synth"
    /\ oexc' = exc

\* an exception inside the try block: control goes to `except Exception as e`
ORaise(exc) ==
    /\ opc' = "notify_error"
    /\ oexc' = exc

\* await notify(state, message) inside the try block: on_state_change is
\* awaited when it was given; it returns (cbok) or raises
ONotify(state, message, cbok, next) ==
    IF ~oin.cb
    THEN /\ cbok
         /\ opc' = next
         /\ UNCHANGED <<olog, oexc>>
    ELSE /\ olog' = Append(olog, LogEntry(state, cbok, message))
         /\ IF cbok
            THEN opc' = next /\ UNCHANGED oexc
            ELSE ORaise("callback_error")

ONotifySynthesizing(cbok) ==
    /\ opc = "notify_synth"
    /\ ONotify("SYNTHESIZING", "text", cbok, "synth")
    /\ UNCHANGED <<oin, otts, oplayed, ores, captureVars, playVars, wsVars, devVars, repoVars>>

\* tts_response = await self._tts.synthesize(tts_request, voice)
OSynthesize(outcome) ==
    /\ opc = "synth"
    /\ olog' = Append(olog, LogEntry("synthesize", outcome # "raises", oin.voice))
    /\ IF outcome = "raises"
       THEN ORaise("synth_error") /\ UNCHANGED otts
       ELSE /\ otts' = outcome
            /\ opc' = "notify_play"
            /\ UNCHANGED oexc
    /\ UNCHANGED <<oin, oplayed, ores, captureVars, playVars, wsVars, devVars, repoVars>>

ONotifyPlaying(cbok) ==
    /\ opc = "notify_play"
    /\ ONotify("PLAYING", "Playing audio...", cbok, "play")
    /\ UNCHANGED <<oin, otts, oplayed, ores, captureVars, playVars, wsVars, devVars, repoVars>>

\* playback_status = await self._audio.play(playback_request); 0 for raising
OPlay(outcome) ==
    /\ opc = "play"
    /\ olog' = Append(olog, LogEntry("play", outcome # 0, otts))
    /\ IF outcome = 0
       THEN ORaise("play_error") /\ UNCHANGED oplayed
       ELSE /\ oplayed' = outcome
            /\ opc' = "notify_done"
            /\ UNCHANGED oexc
    /\ UNCHANGED <<oin, otts, ores, captureVars, playVars, wsVars, devVars, repoVars>>

Returned_Zero(duration_seconds) ==
    [kind |-> "returned", exc |-> "none", is_playing |-> FALSE, duration |-> 0]

\* return PlaybackStatus(is_playing=False,
\*                       duration_seconds=playback_status.duration_seconds)
Returned(duration_seconds) ==
    [kind |-> "returned", exc |-> "none", is_playing |-> FALSE,
     duration |-> duration_seconds]

\* await notify(COMPLETED, ...); return PlaybackStatus(is_playing=False, ...)
ONotifyCompleted(cbok) ==
    /\ opc = "notify_done"
    /\ ONotify("COMPLETED", "Playback complete", cbok, "done")
    /\ ores' = IF cbok THEN Returned(oplayed) ELSE ores
    /\ UNCHANGED <<oin, otts, oplayed, captureVars, playVars, wsVars, devVars, repoVars>>

\* except Exception as e: await notify(ERROR, str(e)); raise
\* an exception of on_state_change leaves the handler in place of e
ONotifyError(cbok) ==
    /\ opc = "notify_error"
    /\ ~oin.cb => cbok
    /\ olog' = IF oin.cb THEN Append(olog, LogEntry("ERROR", cbok, oexc)) ELSE olog
    /\ ores' = [kind |-> "raised",
                exc |-> IF cbok THEN oexc ELSE "callback_error",
                is_playing |-> FALSE, duration |-> 0]
    /\ opc' = "done"
    /\ UNCHANGED <<oin, oexc, otts, oplayed, captureVars, playVars, wsVars, devVars, repoVars>>

NextOrch ==
    \/ \E cb \in BOOLEAN : \E voice \in Voices : OCall(cb, voice)
    \/ \E cbok \in BOOLEAN : ONotifySynthesizing(cbok)
    \/ \E outcome \in Responses \cup {"raises"} : OSynthesize(outcome)
    \/ \E cbok \in BOOLEAN : ONotifyPlaying(cbok)
    \/ \E outcome \in Durations \cup {0} : OPlay(outcome)
    \/ \E cbok \in BOOLEAN : ONotifyCompleted(cbok)
    \/ \E cbok \in BOOLEAN : ONotifyError(cbok)

SpecOrch == Init /\ [][NextOrch]_vars

(***************************************************************************)
(* Part III: SoundDevicePlaybackAdapter.  Each caller is a task awaiting   *)
(* play(), play_file() or stop(); _play_sync and sd.stop run on worker     *)
(* threads (asyncio.to_thread), so the callers' steps interleave.  Every   *)
(* `with self._lock:` block is a single assignment and is one step.        *)
(* sounddevice keeps one playback for the process: sd.play replaces it,    *)
(* sd.stop ends it, sd.wait returns when it is over.                       *)
(***************************************************************************)
\* is_playing()
IsPlaying == is_playing

LoadWavFile_SuffixFirst(path) ==
    IF Lower(path.suffix) # ".wav" THEN "ValueError"
    ELSE IF ~path.exists THEN "FileNotFoundError"
    ELSE IF path.width \notin {2, 4} THEN "ValueError"
    ELSE "ok"

\* _load_wav_file: the exception it raises, or "ok"
LoadWavFile(path) ==
    IF ~path.exists THEN "FileNotFoundError"
    ELSE IF Lower(path.suffix) # ".wav" THEN "ValueError"
    ELSE IF path.width \notin {2, 4} THEN "ValueError"
    ELSE "ok"

\* the checks of AudioPlaybackService.play_file: the exception, or "ok"
ServiceCheck(path) ==
    IF ~path.absolute THEN "ValueError"
    ELSE IF ~path.exists THEN "FileNotFoundError"
    ELSE IF Lower(path.suffix) # ".wav" THEN "ValueError"
    ELSE "ok"

\* a caller begins a call of the driver
CallBegins(t) ==
    /\ ppc[t] = "idle"
    /\ pcalls < MaxPlayCalls
    /\ pcalls' = pcalls + 1
    /\ palone' = [u \in Players |-> u = t /\ \A v \in Players : ppc[v] = "idle"]

\* the call raises before _play_sync is entered
RaisesEarly(t, exc) ==
    /\ pres' = [pres EXCEPT ![t] = [kind |-> "raised", exc |-> exc]]
    /\ UNCHANGED <<ppc, pexc, stopped, late>>

\* asyncio.to_thread(self._play_sync, ...) is awaited
EntersPlaySync(t) ==
    /\ ppc' = [ppc EXCEPT ![t] = "enter"]
    /\ pexc' = [pexc EXCEPT ![t] = "none"]
    /\ pres' = [pres EXCEPT ![t] = NoResult]
    /\ stopped' = [stopped EXCEPT ![t] = FALSE]
    /\ late' = [late EXCEPT ![t] = FALSE]

\* play(request): _parse_audio_data, then _play_sync on a worker thread
Play(t, audio_data) ==
    /\ CallBegins(t)
    /\ IF audio_data = "pcm" THEN EntersPlaySync(t) ELSE RaisesEarly(t, "ValueError")
    /\ UNCHANGED <<is_playing, sdOwner, sdLeft, lastCall, victims, pfaults,
                   captureVars, orchVars, wsVars, devVars, repoVars>>

PlayFileWith(t, layer, path, outcome) ==
    /\ CallBegins(t)
    /\ lastCall' = [n |-> pcalls + 1, layer |-> layer, caller |-> t, path |-> path,
                    outcome |-> IF outcome = "ok" THEN "started" ELSE outcome]
    /\ IF outcome = "ok" THEN EntersPlaySync(t) ELSE RaisesEarly(t, outcome)
    /\ UNCHANGED <<is_playing, sdOwner, sdLeft, victims, pfaults, captureVars, orchVars, wsVars, devVars, repoVars>>

\* SoundDevicePlaybackAdapter.play_file(file_path)
PlayFile(t, path) == PlayFileWith(t, "adapter", path, LoadWavFile(path))

\* AudioPlaybackService.play_file(file_path): its own checks, then the adapter's
ServicePlayFile(t, path) ==
    PlayFileWith(t, "service", path,
                 IF ServiceCheck(path) # "ok" THEN ServiceCheck(path) ELSE LoadWavFile(path))

\* _play_sync: with self._lock: self._is_playing = True
PlaySyncSet(t) ==
    /\ ppc[t] = "enter"
    /\ is_playing' = TRUE
    /\ ppc' = [ppc EXCEPT ![t] = "start"]
    /\ UNCHANGED <<pexc, pres, sdOwner, sdLeft, lastCall, palone, victims, stopped,
                   late, pcalls, pfaults, captureVars, orchVars, wsVars, devVars, repoVars>>

\* _play_sync: device = self._resolve_output_device(); sd.play(...).
\* _resolve_output_device catches what query_devices raises; sd.play starts
\* the playback and returns, or raises
PlaySyncStart(t, hw) ==
    /\ ppc[t] = "start"
    /\ hw # "ok" => pfaults < MaxFaults
    /\ pfaults' = IF hw = "ok" THEN pfaults ELSE pfaults + 1
    /\ IF hw = "ok"
       THEN /\ sdOwner' = t
            /\ sdLeft' = AudioLen
            /\ ppc' = [ppc EXCEPT ![t] = "wait"]
            /\ UNCHANGED pexc
       ELSE /\ ppc' = [ppc EXCEPT ![t] = "finally"]
            /\ pexc' = [pexc EXCEPT ![t] = "PortAudioError"]
            /\ UNCHANGED <<sdOwner, sdLeft>>
    /\ UNCHANGED <<is_playing, pres, lastCall, palone, victims, stopped, late, pcalls,
                   captureVars, orchVars, wsVars, devVars, repoVars>>

\* the audio runtime plays one block of the current playback
SdAdvance ==
    /\ sdLeft > 0
    /\ sdLeft' = sdLeft - 1
    /\ late' = [late EXCEPT ![sdOwner] = @ \/ stopped[sdOwner]]
    /\ UNCHANGED <<is_playing, ppc, pexc, pres, sdOwner, lastCall, palone, victims,
                   stopped, pcalls, pfaults, captureVars, orchVars, wsVars, devVars, repoVars>>

\* _play_sync: sd.wait() returns when the current playback is over, or raises;
\* duration = len(audio_array) / sample_rate
PlaySyncWait(t, hw) ==
    /\ ppc[t] = "wait"
    /\ hw = "ok" => sdLeft = 0
    /\ hw # "ok" => pfaults < MaxFaults
    /\ pfaults' = IF hw = "ok" THEN pfaults ELSE pfaults + 1
    /\ pexc' = [pexc EXCEPT ![t] = IF hw = "ok" THEN "none" ELSE "PortAudioError"]
    /\ ppc' = [ppc EXCEPT ![t] = "finally"]
    /\ UNCHANGED <<is_playing, pres, sdOwner, sdLeft, lastCall, palone, victims,
                   stopped, late, pcalls, captureVars, orchVars, wsVars, devVars, repoVars>>

PlaySyncFinally_OnSuccessOnly(t) ==
    /\ ppc[t] = "finally"
    /\ is_playing' = IF pexc[t] = "none" THEN FALSE ELSE is_playing
    /\ pres' = [pres EXCEPT ![t] = IF pexc[t] = "none"
                                   THEN [kind |-> "returned", exc |-> "none"]
                                   ELSE [kind |-> "raised", exc |-> pexc[t]]]
    /\ ppc' = [ppc EXCEPT ![t] = "idle"]
    /\ victims' = [u \in Players |-> victims[u] \ {t}]
    /\ UNCHANGED <<pexc, sdOwner, sdLeft, lastCall, palone, stopped, late, pcalls,
                   pfaults, captureVars, orchVars, wsVars, devVars, repoVars>>

\* _play_sync: finally: with self._lock: self._is_playing = False; the call
\* returns PlaybackStatus(is_playing=False, ...) or raises
PlaySyncFinally(t) ==
    /\ ppc[t] = "finally"
    /\ is_playing' = FALSE
    /\ pres' = [pres EXCEPT ![t] = IF pexc[t] = "none"
                                   THEN [kind |-> "returned", exc |-> "none"]
                                   ELSE [kind |-> "raised", exc |-> pexc[t]]]
    /\ ppc' = [ppc EXCEPT ![t] = "idle"]
    /\ victims' = [u \in Players |-> victims[u] \ {t}]
    /\ UNCHANGED <<pexc, sdOwner, sdLeft, lastCall, palone, stopped, late, pcalls,
                   pfaults, captureVars, orchVars, wsVars, devVars, repoVars>>

\* stop() is called
Stop(t) ==
    /\ CallBegins(t)
    /\ ppc' = [ppc EXCEPT ![t] = "sdstop"]
    /\ pres' = [pres EXCEPT ![t] = NoResult]
    /\ victims' = [victims EXCEPT ![t] = {u \in Players : ppc[u] \in {"enter", "start", "wait"}}]
    /\ UNCHANGED <<is_playing, pexc, sdOwner, sdLeft, lastCall, stopped, late, pfaults,
                   captureVars, orchVars, wsVars, devVars, repoVars>>

\* stop: await asyncio.to_thread(sd.stop)
StopSd(t) ==
    /\ ppc[t] = "sdstop"
    /\ sdOwner' = 0
    /\ sdLeft' = 0
    /\ ppc' = [ppc EXCEPT ![t] = "clear"]
    /\ UNCHANGED <<is_playing, pexc, pres, lastCall, palone, victims, stopped, late,
                   pcalls, pfaults, captureVars, orchVars, wsVars, devVars, repoVars>>

\* stop: with self._lock: self._is_playing = False; stop() returns
StopClearFlag(t) ==
    /\ ppc[t] = "clear"
    /\ is_playing' = FALSE
    /\ ppc' = [ppc EXCEPT ![t] = "idle"]
    /\ pres' = [pres EXCEPT ![t] = [kind |-> "returned", exc |-> "none"]]
    /\ stopped' = [u \in Players |-> stopped[u] \/ u \in victims[t]]
    /\ victims' = [victims EXCEPT ![t] = {}]
    /\ UNCHANGED <<pexc, sdOwner, sdLeft, lastCall, palone, late, pcalls, pfaults,
                   captureVars, orchVars, wsVars, devVars, repoVars>>

\* play() and stop(); play_file() enters the same _play_sync (SpecFile)
NextPlay ==
    \/ \E t \in Players : \E d \in PlayRequests : Play(t, d)
    \/ \E t \in Players : PlaySyncSet(t)
    \/ \E t \in Players : \E hw \in CallOutcomes : PlaySyncStart(t, hw)
    \/ SdAdvance
    \/ \E t \in Players : \E hw \in CallOutcomes : PlaySyncWait(t, hw)
    \/ \E t \in Players : PlaySyncFinally(t)
    \/ \E t \in Players : Stop(t)
    \/ \E t \in Players : StopSd(t)
    \/ \E t \in Players : StopClearFlag(t)

SpecPlay == Init /\ [][NextPlay]_vars

\* play_file through the service and the adapter, in runs of fewer calls
NextFile ==
    \/ \E t \in Players : \E p \in Paths : pcalls < MaxFileCalls /\ PlayFile(t, p)
    \/ \E t \in Players : \E p \in Paths : pcalls < MaxFileCalls /\ ServicePlayFile(t, p)
    \/ \E t \in Players : PlaySyncSet(t)
    \/ \E t \in Players : \E hw \in CallOutcomes : PlaySyncStart(t, hw)
    \/ SdAdvance
    \/ \E t \in Players : \E hw \in CallOutcomes : PlaySyncWait(t, hw)
    \/ \E t \in Players : PlaySyncFinally(t)

SpecFile == Init /\ [][NextFile]_vars

(***************************************************************************)
(* Part III, continued: SoundDevicePlaybackAdapter._resolve_output_device,  *)
(* which _play_sync calls before sd.play.                                  *)
(***************************************************************************)

\* the enumerate() loop from index i on: the index of the first device whose
\* lower-cased name contains "pulse" or "pipewire", NoIndex when it ends
RECURSIVE FirstMatch(_, _)
FirstMatch(listed, i) ==
    IF i >= Len(listed) THEN NoIndex
    ELSE LET name == LowerName(listed[i + 1])
         IN  IF HasPulse(name) \/ HasPipewire(name) THEN i
             ELSE FirstMatch(listed, i + 1)

\* `if self._settings.device_index:` -- index 0 taken for unset
ResolveOutputDevice_Truthy(index, listed, outcome) ==
    IF index # NoIndex /\ index # 0
    THEN [done |-> TRUE, device |-> index, queried |-> FALSE, raised |-> FALSE]
    ELSE IF outcome = "raises"
    THEN [done |-> TRUE, device |-> NoIndex, queried |-> TRUE, raised |-> FALSE]
    ELSE [done |-> TRUE, device |-> FirstMatch(listed, 0), queried |-> TRUE,
          raised |-> FALSE]

\* the configured index if it is not None; else the scan, inside try, whose
\* `except Exception` logs and falls through to `return None`
ResolveOutputDevice(index, listed, outcome) ==
    IF index # NoIndex
    THEN [done |-> TRUE, device |-> index, queried |-> FALSE, raised |-> FALSE]
    ELSE IF outcome = "raises"
    THEN [done |-> TRUE, device |-> NoIndex, queried |-> TRUE, raised |-> FALSE]
    ELSE [done |-> TRUE, device |-> FirstMatch(listed, 0), queried |-> TRUE,
          raised |-> FALSE]

\* _play_sync: device = self._resolve_output_device()
PlaySyncResolve ==
    /\ ~resolved.done
    /\ resolved' = ResolveOutputDevice(device_index, devices, query)
    /\ UNCHANGED <<device_index, devices, query, captureVars, orchVars,
                   playVars, wsVars, repoVars>>

\* every configuration of the adapter and of the host's devices
InitResolve ==
    /\ InitParts([ops |-> MaxOps, frames |-> MaxFrames])
    /\ InitHistory(FALSE)
    /\ \E index \in DeviceIndexes : \E listed \in DeviceLists :
       \E outcome \in QueryOutcomes : InitSettings(index, listed, outcome)

NextResolve == PlaySyncResolve

SpecResolve == InitResolve /\ [][NextResolve]_vars

(***************************************************************************)
(* Part IV: the /ws/synth-play handler.  One connection carries one        *)
(* request; every `await` of the handler is a step, and the service it     *)
(* awaits is the coroutine of Part II, called with on_state_change.        *)
(***************************************************************************)
\* a field that model_dump(exclude_none=True) leaves out
AbsentText == "absent"
AbsentNumber == -1

\* the JSON the client may send: no voice_id, a voice_id, or data that
\* SynthPlayWSRequest rejects
Requests == {"no_voice", "voice", "invalid"}
\* what voice_repository.get may do
Lookups == {"v1", "none", "raises"}
\* what a send on a connection the client has left raises
SendErrors == {"WebSocketDisconnect", "RuntimeError"}

\* SynthPlayWSMessage(...).model_dump(exclude_none=True)
SynthPlayWSMessage(state, message, duration_seconds, error) ==
    [state |-> state, message |-> message,
     duration_seconds |-> duration_seconds, error |-> error]

\* SynthPlayState(...).value
StateValue(state) ==
    CASE state = "SYNTHESIZING" -> "synthesizing"
      [] state = "PLAYING" -> "playing"
      [] state = "COMPLETED" -> "completed"
      [] state = "ERROR" -> "error"

\* on_state_change(state, message): the message it sends
OnStateChange(e) ==
    SynthPlayWSMessage(StateValue(e.ev), e.info, AbsentNumber, AbsentText)

\* the messages sent on the connection so far: those of on_state_change,
\* sent while the service ran, then those of the handler itself
Wire ==
    LET sent == SelectSeq(olog, LAMBDA e : e.ev \notin {"synthesize", "play"} /\ e.ok)
    IN [k \in 1..Len(sent) |-> OnStateChange(sent[k])] \o wsent

\* await websocket.accept()
WAccept ==
    /\ wpc = "connect"
    /\ wconn' = "open"
    /\ wpc' = "receive"
    /\ UNCHANGED <<wexc, wvoice, wsent, captureVars, orchVars, playVars, devVars, repoVars>>

\* the client goes away
WPeerCloses ==
    /\ wconn = "open"
    /\ wpc \notin {"close", "closed"}
    /\ wconn' = "peer_closed"
    /\ UNCHANGED <<wpc, wexc, wvoice, wsent, captureVars, orchVars, playVars, devVars, repoVars>>

\* data = await websocket.receive_json(); model_validate(data);
\* `if request.voice_id`
WReceive(data) ==
    /\ wpc = "receive"
    /\ IF wconn # "open"
       THEN \* WebSocketDisconnect
            /\ data = "no_voice"
            /\ wpc' = "close"
            /\ UNCHANGED <<wexc, wvoice>>
       ELSE IF data = "invalid"
       THEN /\ wexc' = "validation_error"
            /\ wpc' = "error"
            /\ UNCHANGED wvoice
       ELSE /\ wpc' = IF data = "voice" THEN "resolve" ELSE "service"
            /\ wvoice' = "none"
            /\ UNCHANGED wexc
    /\ UNCHANGED <<wconn, wsent, captureVars, orchVars, playVars, devVars, repoVars>>

\* voice = await container.voice_repository.get(request.voice_id)
WResolve(found) ==
    /\ wpc = "resolve"
    /\ IF found = "raises"
       THEN /\ wexc' = "repository_error"
            /\ wpc' = "error"
            /\ UNCHANGED wvoice
       ELSE /\ wvoice' = found
            /\ wpc' = "service"
            /\ UNCHANGED wexc
    /\ UNCHANGED <<wconn, wsent, captureVars, orchVars, playVars, devVars, repoVars>>

\* service.synthesize_and_play(..., on_state_change=on_state_change) begins
WCallService ==
    /\ wpc = "service"
    /\ opc = "idle"
    /\ OCall(TRUE, wvoice)

\* `await service.synthesize_and_play(...)` is over: status is returned, or
\* the exception reaches `except WebSocketDisconnect` or `except Exception`
WAwaitService(exc) ==
    /\ wpc = "service"
    /\ opc = "done"
    /\ ores.exc # "callback_error" => exc = "RuntimeError"
    /\ IF ores.kind = "returned"
       THEN wpc' = "final" /\ UNCHANGED wexc
       ELSE IF ores.exc = "callback_error" /\ exc = "WebSocketDisconnect"
       THEN wpc' = "close" /\ UNCHANGED wexc
       ELSE /\ wexc' = IF ores.exc = "callback_error" THEN exc ELSE ores.exc
            /\ wpc' = "error"
    /\ UNCHANGED <<wconn, wvoice, wsent, captureVars, orchVars, playVars, devVars, repoVars>>

\* await websocket.send_json(final_message...)
WSendFinal(exc) ==
    /\ wpc = "final"
    /\ IF wconn = "open"
       THEN /\ exc = "RuntimeError"
            /\ wsent' = Append(wsent, SynthPlayWSMessage("completed", "Playback complete",
                                                       ores.duration, AbsentText))
            /\ wpc' = "close"
            /\ UNCHANGED wexc
       ELSE /\ wpc' = IF exc = "WebSocketDisconnect" THEN "close" ELSE "error"
            /\ wexc' = IF exc = "WebSocketDisconnect" THEN wexc ELSE exc
            /\ UNCHANGED wsent
    /\ UNCHANGED <<wconn, wvoice, captureVars, orchVars, playVars, devVars, repoVars>>

\* except Exception as e: send the error message; a failure to send is
\* passed over
WSendError ==
    /\ wpc = "error"
    /\ wsent' = IF wconn = "open"
                THEN Append(wsent, SynthPlayWSMessage("error", AbsentText, AbsentNumber, wexc))
                ELSE wsent
    /\ wpc' = "close"
    /\ UNCHANGED <<wconn, wexc, wvoice, captureVars, orchVars, playVars, devVars, repoVars>>

\* finally: await websocket.close(); a failure to close is passed over
WClose ==
    /\ wpc = "close"
    /\ wconn' = IF wconn = "open" THEN "closed" ELSE wconn
    /\ wpc' = "closed"
    /\ UNCHANGED <<wexc, wvoice, wsent, captureVars, orchVars, playVars, devVars, repoVars>>

\* on_state_change sends on the connection: it raises once the client left
NextWs ==
    \/ WAccept
    \/ WPeerCloses
    \/ \E data \in Requests : WReceive(data)
    \/ \E found \in Lookups : WResolve(found)
    \/ WCallService
    \/ ONotifySynthesizing(wconn = "open")
    \/ \E outcome \in Responses \cup {"raises"} : OSynthesize(outcome)
    \/ ONotifyPlaying(wconn = "open")
    \/ \E outcome \in Durations \cup {0} : OPlay(outcome)
    \/ ONotifyCompleted(wconn = "open")
    \/ ONotifyError(wconn = "open")
    \/ \E exc \in SendErrors : WAwaitService(exc)
    \/ \E exc \in SendErrors : WSendFinal(exc)
    \/ WSendError
    \/ WClose

SpecWs == Init /\ [][NextWs]_vars

(***************************************************************************)
(* Part V: FileVoiceRepository.  Every caller is a task on the event loop;  *)
(* every `await asyncio.to_thread(...)` is a step, and other tasks run      *)
(* between two steps.  Task k saves and deletes the voice whose UUID is k,  *)
(* so that calls in flight together are always about different UUIDs.      *)
(* The index is modelled by its keys.                                      *)
(***************************************************************************)

\* exists(): str(voice_id) in the metadata read from disk
Exists(voice_id) == voice_id \in metadata

\* save(): await asyncio.to_thread(voice_file.write_bytes, voice_data)
Save(k) ==
    /\ rpc[k] = "idle"
    /\ rcalls < MaxRepoCalls
    /\ rcalls' = rcalls + 1
    /\ voice_files' = voice_files \cup {k}
    /\ rpc' = [rpc EXCEPT ![k] = "save_read"]
    /\ UNCHANGED <<metadata, rlocal, present, captureVars, orchVars, playVars,
                   wsVars, devVars>>

\* metadata = await asyncio.to_thread(self._read_metadata), and then
\* metadata[voice_id_str] = ... on the dict that was read
SaveRead(k) ==
    /\ rpc[k] = "save_read"
    /\ rlocal' = [rlocal EXCEPT ![k] = metadata \cup {k}]
    /\ rpc' = [rpc EXCEPT ![k] = "save_write"]
    /\ UNCHANGED <<metadata, voice_files, present, rcalls, captureVars,
                   orchVars, playVars, wsVars, devVars>>

\* await asyncio.to_thread(self._write_metadata, metadata); return voice
SaveWrite(k) ==
    /\ rpc[k] = "save_write"
    /\ metadata' = rlocal[k]
    /\ present' = present \cup {k}
    /\ rpc' = [rpc EXCEPT ![k] = "idle"]
    /\ UNCHANGED <<voice_files, rlocal, rcalls, captureVars, orchVars,
                   playVars, wsVars, devVars>>

\* delete() is called
Delete(k) ==
    /\ rpc[k] = "idle"
    /\ rcalls < MaxRepoCalls
    /\ rcalls' = rcalls + 1
    /\ rpc' = [rpc EXCEPT ![k] = "delete_read"]
    /\ UNCHANGED <<metadata, voice_files, rlocal, present, captureVars,
                   orchVars, playVars, wsVars, devVars>>

\* metadata = await asyncio.to_thread(self._read_metadata); return False
\* if the voice is not in it, else del metadata[voice_id_str]
DeleteRead(k) ==
    /\ rpc[k] = "delete_read"
    /\ IF k \notin metadata
       THEN /\ rpc' = [rpc EXCEPT ![k] = "idle"]
            /\ UNCHANGED rlocal
       ELSE /\ rlocal' = [rlocal EXCEPT ![k] = metadata \ {k}]
            /\ rpc' = [rpc EXCEPT ![k] = "delete_write"]
    /\ UNCHANGED <<metadata, voice_files, present, rcalls, captureVars,
                   orchVars, playVars, wsVars, devVars>>

\* await asyncio.to_thread(self._write_metadata, metadata)
DeleteWrite(k) ==
    /\ rpc[k] = "delete_write"
    /\ metadata' = rlocal[k]
    /\ rpc' = [rpc EXCEPT ![k] = "delete_unlink"]
    /\ UNCHANGED <<voice_files, rlocal, present, rcalls, captureVars,
                   orchVars, playVars, wsVars, devVars>>

\* if voice_file.exists(): await asyncio.to_thread(voice_file.unlink);
\* return True
DeleteUnlink(k) ==
    /\ rpc[k] = "delete_unlink"
    /\ voice_files' = voice_files \ {k}
    /\ present' = present \ {k}
    /\ rpc' = [rpc EXCEPT ![k] = "idle"]
    /\ UNCHANGED <<metadata, rlocal, rcalls, captureVars, orchVars, playVars,
                   wsVars, devVars>>

NextRepo ==
    \/ \E k \in RepoTasks : Save(k)
    \/ \E k \in RepoTasks : SaveRead(k)
    \/ \E k \in RepoTasks : SaveWrite(k)
    \/ \E k \in RepoTasks : Delete(k)
    \/ \E k \in RepoTasks : DeleteRead(k)
    \/ \E k \in RepoTasks : DeleteWrite(k)
    \/ \E k \in RepoTasks : DeleteUnlink(k)

SpecRepo == Init /\ [][NextRepo]_vars

(***************************************************************************)
(* Vocabulary of the properties                                            *)
(***************************************************************************)
SeqsOf(q) == [k \in 1..Len(q) |-> q[k].seq]
UidsOf(q) == [k \in 1..Len(q) |-> q[k].uid]
Count(u, q) == Cardinality({k \in 1..Len(q) : q[k].uid = u})
Min(a, b) == IF a <= b THEN a ELSE b
UpTo(n) == [k \in 1..n |-> k - 1]

\* the frames a subscriber was given: those read, then those still queued
Delivered(i) == Frames(got[i]) \o queue[i]

\* the callbacks that still have subscriber i ahead in their snapshot
Pending(i) == {s \in StreamIds :
                 cbpc[s] # "idle" /\ \E k \in 1..Len(cbsubs[s]) : cbsubs[s][k] = i}

\* the frames captured since subscriber i was made and already offered to it
Offered(i) == {u \in (subAt[i] + 1)..captured : \A s \in Pending(i) : cbframe[s].uid # u}

CallbacksIdle == \A s \in StreamIds : cbpc[s] = "idle"

\* the hub was started once, is running, and i subscribed before any frame
\* and lost none
OneSessionNoDrop(i) ==
    /\ i \in Handles
    /\ stream = 1 /\ nextStream = 2
    /\ subAt[i] = 0
    /\ drops[i] = 0
    /\ ~closed[i]

\* C1: for a hub started once and a subscriber registered before the first
\* frame that lost no frame, the frames read so far and those still queued
\* are the frames 0,1,...,N-1 in that order, N the number of callbacks that
\* have offered their frame, and a read returns no-data only when all of
\* them have been read.
C1_NoDropDelivery ==
    [][\A i \in SubIds : OneSessionNoDrop(i)' =>
          /\ SeqsOf(Delivered(i))' = UpTo(Cardinality(Offered(i)))'
          /\ (got'[i] = Append(got[i], NoData) => queue[i] = <<>>)]_vars

C1_Witness ==
    \E i \in SubIds :
        /\ OneSessionNoDrop(i)
        /\ CallbacksIdle
        /\ captured >= 2
        /\ Len(got[i]) = captured + 1
        /\ SeqsOf(Frames(got[i])) = UpTo(captured)
        /\ got[i][Len(got[i])] = NoData

\* C2: every frame offered to a subscriber that is not closed is in what the
\* subscriber was given exactly once unless it was dropped on a full queue,
\* whatever the other subscribers read; a subscriber of the one session that
\* lost nothing is given 0,1,2,... in order.
C2_FanOut ==
    \A i \in Handles : ~closed[i] =>
        /\ \A k \in 1..Len(Delivered(i)) : Delivered(i)[k].uid \in Offered(i)
        /\ \A u \in Offered(i) : Count(u, Delivered(i)) <= 1
        /\ Cardinality({u \in Offered(i) : Count(u, Delivered(i)) = 0}) = drops[i]
        /\ (nextStream <= 2 /\ subAt[i] = 0 /\ drops[i] = 0) =>
               SeqsOf(Delivered(i)) = UpTo(Cardinality(Offered(i)))

C2_Witness ==
    /\ next_subscriber_id = 3
    /\ \A i \in {1, 2} : SeqsOf(Frames(got[i])) = <<0, 1, 2, 3, 4>>

C4_BlockedReaderWakes ==
    \A t \in Clients :
        (pc[t] = "read_get" /\ tmo[t] = TimeoutNone /\ drained[arg[t]])
            ~> (pc[t] = "idle")

\* C5: once close() or stop() has marked a subscriber closed and drained its
\* queue, the queue holds no frame.
C5_ClosedReceivesNothing ==
    \A i \in SubIds : drained[i] => queue[i] = <<>>

\* C6: the sequence numbers of the frames returned to one subscriber by its
\* successive reads are strictly increasing.
C6_PerSubscriberOrder ==
    \A i \in SubIds :
        \A k \in 1..(Len(Frames(got[i])) - 1) :
            Frames(got[i])[k].seq < Frames(got[i])[k + 1].seq

\* a stream is open from its construction until its close() has succeeded
StreamOpen(s) == streamState[s] \in {"open", "active", "stopped"}

\* C7: at most one input stream opened by the hub is open.
C7_SingleInputStream ==
    Cardinality({s \in StreamIds : StreamOpen(s)}) <= 1

\* C8: when stop() leaves its locked section the hub is not running and the
\* subscriber table is empty; a stop() that finds the hub stopped with an
\* empty table takes no stream, returns from the locked section without
\* touching any stream, subscriber or queue, and stop() never raises.
C8_StopIdempotent ==
    [][\A t \in Clients :
         /\ (pc[t] = "stop_clear" /\ pc'[t] # "stop_clear") =>
                (stream' = 0 /\ subscribers' = {} /\ lock' = 0)
         /\ (stopFrom[t] # "stopped" /\ stopFrom'[t] = "stopped") =>
                /\ pc'[t] = "stop_clear" /\ lstream'[t] = 0 /\ iter'[t] = <<>>
                /\ stream' = 0 /\ subscribers' = {}
                /\ streamState' = streamState /\ closed' = closed /\ queue' = queue
         /\ (stopFrom[t] = "stopped" /\ pc'[t] # pc[t]) =>
                /\ pc'[t] = "idle"
                /\ stream' = 0 /\ subscribers' = {}
                /\ streamState' = streamState /\ closed' = closed /\ queue' = queue
         /\ "stop" \notin raisedOps'
      ]_vars

C8_Witness ==
    \E t \in Clients :
        /\ stopFrom[t] = "stopped"
        /\ \E s \in StreamIds : streamState[s] = "closed"
        /\ \E i \in Handles : drained[i]

\* C9: every subscribe() returns an id greater than every id returned
\* before, and no operation ever lowers the id counter.
C9_IdsNeverReused ==
    [][/\ next_subscriber_id' >= next_subscriber_id
       /\ \A k \in 1..Len(issued') : issued'[k] < next_subscriber_id'
       /\ \A k \in 1..(Len(issued') - 1) : issued'[k] < issued'[k + 1]
      ]_vars

C9_Witness ==
    /\ Len(issued) = 2
    /\ drained[1]
    /\ 2 \in subscribers
    /\ stream # 0

\* the states on_state_change was called with, in order
Notes == [k \in 1..Len(SelectSeq(olog, LAMBDA e : e.ev \notin {"synthesize", "play"}))
            |-> SelectSeq(olog, LAMBDA e : e.ev \notin {"synthesize", "play"})[k].ev]

Called(ev) == \E k \in 1..Len(olog) : olog[k].ev = ev
Failed(ev) == \E k \in 1..Len(olog) : olog[k].ev = ev /\ ~olog[k].ok

\* C10: when synthesize raised, a call made with a state callback has, once
\* it is over, called the callback exactly twice, with SYNTHESIZING then
\* ERROR, has not called play, and raised the synthesis exception.
C10_SynthesisFailure ==
    (opc = "done" /\ oin.cb /\ Failed("synthesize")) =>
        /\ Notes = <<"SYNTHESIZING", "ERROR">>
        /\ ~Called("play")
        /\ ores.kind = "raised"
        /\ ores.exc = "synth_error"

\* the calls made so far by the current synthesize_and_play, in order
Events == [k \in 1..Len(olog) |-> olog[k].ev]

IsPrefix(p, q) == Len(p) <= Len(q) /\ \A k \in 1..Len(p) : p[k] = q[k]

AllOk == \A k \in 1..Len(olog) : olog[k].ok

SuccessPath == <<"SYNTHESIZING", "synthesize", "PLAYING", "play", "COMPLETED">>

\* C11: while nothing has failed, a call made with a state callback has
\* notified and called in the order SYNTHESIZING, synthesize, PLAYING, play,
\* COMPLETED; once it is over it has made all five and returned a status with
\* is_playing false and the duration the playback driver reported.
C11_SuccessPath ==
    (oin.cb /\ AllOk) =>
        /\ IsPrefix(Events, SuccessPath)
        /\ opc = "done" =>
              /\ Events = SuccessPath
              /\ Notes = <<"SYNTHESIZING", "PLAYING", "COMPLETED">>
              /\ ores.kind = "returned"
              /\ ~ores.is_playing
              /\ ores.duration = oplayed
              /\ oplayed \in Durations

C11_Witness ==
    /\ opc = "done" /\ oin.cb /\ AllOk
    /\ ores.kind = "returned" /\ ores.duration = 2

\* C12: when synthesize returned and play raised, a call made with a state
\* callback has, once it is over, notified SYNTHESIZING, PLAYING, ERROR (with
\* the description of play's exception) and raised play's exception.
C12_PlaybackFailure ==
    (opc = "done" /\ oin.cb /\ Failed("play")) =>
        /\ Notes = <<"SYNTHESIZING", "PLAYING", "ERROR">>
        /\ olog[Len(olog)].info = "play_error"
        /\ ores.kind = "raised"
        /\ ores.exc = "play_error"

\* C13: when synthesize or play raised and the state callback raises while
\* it is notified of ERROR, the call still raises the exception of
\* synthesize or play.
C13_CallbackDoesNotMask ==
    (opc = "done" /\ (Failed("synthesize") \/ Failed("play")) /\ Failed("ERROR")) =>
        (ores.kind = "raised" /\ ores.exc = oexc /\ oexc \in {"synth_error", "play_error"})

\* C14: a state callback that raises on SYNTHESIZING, PLAYING or COMPLETED
\* does not keep synthesize and play from being called, and a call whose
\* synthesize and play both returned returns its status.
C14_CallbackDoesNotAbort ==
    (opc = "done" /\ ~Failed("synthesize") /\ ~Failed("play")) =>
        /\ Called("synthesize")
        /\ Called("play")
        /\ ores.kind = "returned"

\* C15: in one call synthesize and play are each called at most once, play
\* only after synthesize returned, and nothing is called after a failure but
\* the ERROR notification.
C15_NoRetries ==
    /\ Cardinality({k \in 1..Len(olog) : olog[k].ev = "synthesize"}) <= 1
    /\ Cardinality({k \in 1..Len(olog) : olog[k].ev = "play"}) <= 1
    /\ \A k \in 1..Len(olog) : olog[k].ev = "play" =>
           \E j \in 1..(k - 1) : olog[j].ev = "synthesize" /\ olog[j].ok
    /\ \A j \in 1..Len(olog) : ~olog[j].ok =>
           \A k \in (j + 1)..Len(olog) : olog[k].ev = "ERROR"

C15_Witness ==
    /\ opc = "done"
    /\ Failed("play")
    /\ ores.kind = "raised"

InPlaySync(t) == ppc[t] \in {"start", "wait", "finally"}

\* C16: while no other call of the driver has begun since a play() or
\* play_file() call began, is_playing() is true from the moment _play_sync
\* set the flag until its finally block, hardware playback included, and is
\* false once the call has returned or raised.
C16_FlagCleanup ==
    \A t \in Players : palone[t] =>
        /\ InPlaySync(t) => IsPlaying
        /\ (sdOwner = t /\ sdLeft > 0 /\ ppc[t] = "wait") => IsPlaying
        /\ ppc[t] = "idle" => ~IsPlaying

C16_Witness ==
    \E t \in Players :
        /\ palone[t] /\ ppc[t] = "idle"
        /\ pres[t] = [kind |-> "raised", exc |-> "PortAudioError"]
        /\ sdOwner = t
        /\ ~IsPlaying

\* C17: is_playing() is true whenever some call is between sd.play and the
\* return of sd.wait with audio still being played, and false when no call
\* is inside _play_sync.
C17_FlagAccurate ==
    /\ (sdLeft > 0 /\ \E t \in Players : ppc[t] = "wait") => IsPlaying
    /\ (\A t \in Players : ~InPlaySync(t)) => ~IsPlaying

\* C18: once a stop() that began while a play call was in progress has
\* returned, no more audio of that call is played.
C18_StopTakesEffect ==
    \A t \in Players : ~late[t]

\* C19: at most one call is between sd.play and the return of sd.wait.
C19_SinglePlayback ==
    Cardinality({t \in Players : ppc[t] = "wait"}) <= 1

\* C20: play_file on a path that does not exist raises FileNotFoundError
\* whatever the suffix, on an existing path without the .wav suffix raises
\* ValueError, the service raises ValueError on a relative path before both,
\* and the call that raises starts no playback and leaves is_playing alone.
C20_PlayFileErrors ==
    [][lastCall'.n # lastCall.n =>
         LET path == lastCall'.path
             outcome == lastCall'.outcome
             t == lastCall'.caller
         IN /\ (lastCall'.layer = "service" /\ ~path.absolute) => outcome = "ValueError"
            /\ ((lastCall'.layer = "adapter" \/ path.absolute) /\ ~path.exists)
                   => outcome = "FileNotFoundError"
            /\ ((lastCall'.layer = "adapter" \/ path.absolute) /\ path.exists
                    /\ path.suffix = ".txt") => outcome = "ValueError"
            /\ outcome # "started" =>
                   /\ pres'[t] = [kind |-> "raised", exc |-> outcome]
                   /\ ppc'[t] = "idle"
                   /\ is_playing' = is_playing
                   /\ sdOwner' = sdOwner /\ sdLeft' = sdLeft
            /\ outcome = "started" =>
                   (path.exists /\ Lower(path.suffix) = ".wav" /\ ppc'[t] = "enter")
      ]_vars

C20_Witness ==
    /\ lastCall.layer = "adapter"
    /\ ~lastCall.path.exists /\ lastCall.path.suffix = ".txt"
    /\ lastCall.outcome = "FileNotFoundError"
    /\ ~IsPlaying

\* a step of start(), whatever the audio runtime answers
StartStep ==
    \E t \in Clients : \E hw \in StartOutcomes : \E dev \in DeviceOutcomes :
        Start(t, hw, dev)

\* C21: a start() on a hub that is running opens no stream and leaves the
\* stream, the streams' states, the frame sequence counter, the subscriber
\* table and the device name as they were, and does not raise.
C21_StartIdempotent ==
    [][(StartStep /\ stream # 0) =>
         /\ stream' = stream
         /\ nextStream' = nextStream /\ streamState' = streamState
         /\ frame_sequence' = frame_sequence
         /\ subscribers' = subscribers /\ next_subscriber_id' = next_subscriber_id
         /\ selected_device_name' = selected_device_name
         /\ raisedOps' = raisedOps
      ]_vars

C21_Witness ==
    /\ "start" \in idem
    /\ stream = 1 /\ nextStream = 2 /\ streamState[1] = "active"
    /\ frame_sequence > 0
    /\ subscribers # {}

\* C22: a start() that opens a stream sets the sequence counter to 0, and
\* the frames captured by one stream are numbered 0,1,2,... in the order of
\* their capture, no number given twice and none skipped.
C22_SessionNumbering ==
    [][/\ (StartStep /\ stream = 0 /\ stream' # 0) => frame_sequence' = 0
       /\ \A s \in StreamIds : numbered'[s] = UpTo(Len(numbered'[s]))
      ]_vars

\* a step of close() on handle i by client t
CloseStep(t, i) == CloseLock(t, i)

\* C23: the first close() of a reader removes its subscriber from the
\* table and marks it closed, and its drain loop ends on an empty queue; a
\* close() of a reader whose subscriber is no longer in the table, after a
\* close() or a stop(), changes nothing of the hub and returns at once; no
\* close() raises.
C23_CloseIdempotent ==
    [][/\ \A t \in Clients : \A i \in SubIds :
            /\ (CloseStep(t, i) /\ i \in subscribers) =>
                   (subscribers' = subscribers \ {i} /\ closed'[i])
            /\ (CloseStep(t, i) /\ i \notin subscribers) =>
                   /\ hubVars' = hubVars
                   /\ pc'[t] = "idle"
            /\ (pc[t] = "close_drain" /\ arg[t] = i /\ pc'[t] = "idle") =>
                   (queue'[i] = <<>> /\ closed'[i] /\ i \notin subscribers')
       /\ "close" \notin raisedOps'
      ]_vars

C23_Witness ==
    /\ "close" \in idem
    /\ issued = <<1>> /\ drained[1] /\ closed[1]
    /\ stream = 1 /\ streamState[1] = "active"
    /\ captured > 0

\* client t returns from stop() in this step
StopReturns(t) == pc[t] \in {"stop_clear", "stop_close"} /\ pc'[t] = "idle"

\* C24: stop() never raises; after stream.stop(), failed or not, it goes on
\* to stream.close(); and when it returns, the stream it took is not the
\* hub's stream and every subscriber that was drained and removed from the
\* table is marked closed and has an empty queue.
C24_TeardownCompletes ==
    [][/\ "stop" \notin raisedOps'
       /\ \A t \in Clients :
            /\ (pc[t] = "stop_stream" /\ pc'[t] # pc[t]) => pc'[t] = "stop_close"
            /\ StopReturns(t) =>
                   /\ lstream[t] # 0 => stream' # lstream[t]
                   /\ \A i \in SubIds : (drained'[i] /\ i \notin subscribers') =>
                          /\ closed'[i]
                          /\ queue'[i] = <<>>
      ]_vars

\* C25: a push that finds a queue full leaves the callback with the rest of
\* its snapshot and the same frame, a push that finds room appends the frame,
\* and a subscriber that is not closed and never met a full queue holds or
\* has read every frame offered to it, whatever the other subscribers lost.
C25_DropIsolation ==
    [][/\ \A s \in StreamIds : (cbpc[s] = "put" /\ cbpc'[s] # "put") =>
            LET sub == Head(cbsubs[s]) IN
              /\ cbsubs'[s] = Tail(cbsubs[s])
              /\ cbsubs'[s] # <<>> => (cbframe'[s] = cbframe[s] /\ cbpc'[s] = "check")
              /\ Len(queue[sub]) < maxsize[sub] =>
                     queue'[sub] = Append(queue[sub], cbframe[s])
       /\ \A i \in SubIds : (i \in Handles /\ ~closed[i] /\ drops[i] = 0)' =>
            (\A u \in Offered(i) : Count(u, Delivered(i)) = 1)'
      ]_vars

\* subscriber 1, first in the snapshot, lost the second frame on its full
\* queue of one; subscriber 2 was given both frames
C25_Witness ==
    /\ subscribers = {1, 2}
    /\ CallbacksIdle
    /\ maxsize[1] = 1 /\ drops[1] = 1 /\ UidsOf(queue[1]) = <<1>>
    /\ ~closed[2] /\ drops[2] = 0 /\ UidsOf(Delivered(2)) = <<1, 2>>

Distinct(q) == \A k, l \in 1..Len(q) : q[k] = q[l] => k = l

\* C26: a read that takes from a queue returns its oldest frame and removes
\* it, and no frame is returned twice to one handle; read(0) on an empty
\* queue can return, and returns no-data; a read on a handle whose
\* subscriber is out of the table, or is found closed, returns no-data in
\* that step.
C26_ReadSemantics ==
    /\ [](\A t \in Clients : (pc[t] = "read_get" /\ tmo[t] = 0) => ENABLED ReadTake(t))
    /\ [][\A t \in Clients :
            /\ (pc[t] = "read_get" /\ pc'[t] = "idle") =>
                   LET sub == arg[t] IN
                     IF queue[sub] # <<>>
                     THEN /\ got'[sub] = Append(got[sub], Head(queue[sub]))
                          /\ queue'[sub] = Tail(queue[sub])
                     ELSE /\ got'[sub] = Append(got[sub], NoData)
                          /\ queue'[sub] = <<>>
            /\ \A i \in SubIds :
                 /\ ((\E w \in Timeouts : ReadLookup(t, i, w)) /\ i \notin subscribers) =>
                        (got'[i] = Append(got[i], NoData) /\ pc'[t] = "idle")
                 /\ (pc[t] = "read_check" /\ arg[t] = i /\ closed[i] /\ pc'[t] # pc[t]) =>
                        (got'[i] = Append(got[i], NoData) /\ pc'[t] = "idle")
                 /\ Distinct(UidsOf(Frames(got'[i])))
         ]_vars

\* two frames were queued for subscriber 1; its reads returned the first,
\* then the second, then no-data from the empty queue
C26_Witness ==
    /\ issued = <<1>> /\ ~closed[1]
    /\ Len(got[1]) = 3
    /\ UidsOf(Frames(got[1])) = <<1, 2>>
    /\ got[1][3] = NoData

\* C27: the drain loop of close() ends on an empty queue; when stop()
\* returns, the queue of every subscriber it drained and removed is empty;
\* and a read that begins on a handle after its subscriber was drained
\* returns no frame.
C27_DrainOnClose ==
    [][\A t \in Clients :
         /\ (pc[t] = "close_drain" /\ pc'[t] = "idle") => queue'[arg[t]] = <<>>
         /\ StopReturns(t) =>
                \A i \in SubIds : (drained'[i] /\ i \notin subscribers') => queue'[i] = <<>>
         /\ \A i \in SubIds :
              ((\E w \in Timeouts : ReadLookup(t, i, w)) /\ drained[i]) =>
                  got'[i] = Append(got[i], NoData)
      ]_vars

\* C28: a start() on a stopped hub in which _get_device() raises, and in
\* which the stream opens and starts, raises nothing and leaves the hub
\* running on a new active stream, the counter at 0; the device name is the
\* one set before the failing query.
C28_DeviceFailureContained ==
    [][\A t \in Clients : \A dev \in DeviceOutcomes \ {"ok"} :
         (Start(t, "ok", dev) /\ stream = 0) =>
             /\ stream' = nextStream /\ nextStream' = nextStream + 1
             /\ streamState'[stream'] = "active"
             /\ frame_sequence' = 0
             /\ raisedOps' = raisedOps
             /\ dev = "query_raises" => selected_device_name' = selected_device_name
      ]_vars

\* the hub runs and captured a frame although no start() could name a device
C28_Witness ==
    /\ selected_device_name = "None"
    /\ stream # 0 /\ streamState[stream] = "active"
    /\ raisedOps = {}
    /\ numbered[stream] # <<>>

\* the states of the messages sent on the connection, in order
WireStates == [k \in 1..Len(Wire) |-> Wire[k].state]

\* C29: when the handler has closed a connection the client stayed on, a
\* request that raised nothing was sent synthesizing, playing and one
\* completed message, which carries duration_seconds; a request that raised
\* was sent exactly one message of state error, the last one, with the text
\* of the exception in its error field.
C29_WebSocketFlow ==
    (wpc = "closed" /\ wconn = "closed") =>
        IF wexc = "none"
        THEN /\ WireStates = <<"synthesizing", "playing", "completed">>
             /\ Wire[3].duration_seconds = ores.duration
        ELSE /\ Cardinality({k \in 1..Len(Wire) : Wire[k].state = "error"}) = 1
             /\ Wire[Len(Wire)].state = "error"
             /\ Wire[Len(Wire)].error = wexc

\* the fields the hub lock protects
Guarded == <<subscribers, next_subscriber_id, frame_sequence, stream>>

\* a step that enters a section of code under `with self._lock`
LockedSection ==
    \/ StartStep
    \/ \E t \in Clients : \E m \in MaxFramesArgs : Subscribe(t, m)
    \/ \E t \in Clients : StopLock(t)
    \/ \E t \in Clients : \E i \in SubIds : CloseLock(t, i)
    \/ \E t \in Clients : \E i \in SubIds : \E w \in Timeouts : ReadLookup(t, i, w)
    \/ \E s \in StreamIds : CbEnter(s)

\* C30: a locked section is entered only when the lock is free; a guarded
\* field changes only in a step that enters a locked section or is taken
\* by the client holding the lock; the callback's locked section leaves the
\* lock free, its closed test and its push leave the lock as it is, and the
\* push can be taken whoever holds the lock.
C30_LockDiscipline ==
    /\ [](\A s \in StreamIds : cbpc[s] = "put" => ENABLED CbPut(s))
    /\ [][/\ LockedSection => lock = 0
          /\ Guarded' # Guarded =>
                \/ LockedSection
                \/ lock # 0 /\ pc'[lock] # pc[lock]
          /\ \A s \in StreamIds :
                /\ CbEnter(s) => lock' = 0
                /\ (cbpc[s] # "idle" /\ <<cbpc[s], cbsubs[s]>>' # <<cbpc[s], cbsubs[s]>>)
                      => (lock' = lock /\ Guarded' = Guarded)
         ]_vars

\* a client is inside stop()'s locked section while a callback that took
\* its snapshot before is at its push
C30_Witness ==
    \E t \in Clients : \E s \in StreamIds :
        /\ lock = t /\ pc[t] \in {"stop_mark", "stop_drain"}
        /\ cbpc[s] = "put"
        /\ Head(cbsubs[s]) = Head(iter[t])

\* C31: no queue ever holds more frames than its capacity; subscribe()
\* sets the capacity to max_frames, or to 1 when max_frames is below 1, the
\* default max_frames gives capacity 1024, and no later step changes the
\* capacity of a subscriber.
C31_QueueBound ==
    [][/\ Capacity(DefaultMaxFrames) = 1024
       /\ \A i \in SubIds : i \in Handles' =>
            /\ maxsize'[i] >= 1
            /\ Len(queue'[i]) <= maxsize'[i]
            /\ i \in Handles => maxsize'[i] = maxsize[i]
       /\ \A t \in Clients : \A m \in MaxFramesArgs :
            Subscribe(t, m) =>
                maxsize'[next_subscriber_id] = (IF m < 1 THEN 1 ELSE m)
      ]_vars

\* both capacities were reached: subscriber 1, of capacity 1, lost frames,
\* and subscriber 2 holds two
C31_Witness ==
    /\ maxsize[1] = 1 /\ Len(queue[1]) = 1 /\ drops[1] >= 1
    /\ maxsize[2] = 2 /\ Len(queue[2]) = 2
    /\ captured = 3

\* the positions of the devices a scan accepts
Matches(listed) ==
    {k \in 1..Len(listed) :
        HasPulse(LowerName(listed[k])) \/ HasPipewire(LowerName(listed[k]))}

C33_TerminalNotificationFinal ==
    \A k \in 1..Len(Notes) :
        Notes[k] \in {"COMPLETED", "ERROR"} => k = Len(Notes)

\* C34: if opening the input stream or starting it raises inside start(),
\* the hub lock is released, is_running() is false afterwards, the
\* subscriber table is unchanged, and a later start() opens a stream again
\* instead of returning as a no-op.
C34_FailedStartLeavesStopped ==
    [][\A t \in Clients : \A hw \in StartOutcomes \ {"ok"} :
         (~AlreadyRunning(stream) /\ Start(t, hw, "ok")) =>
             /\ lock' = 0
             /\ stream' = 0
             /\ subscribers' = subscribers
             /\ ~AlreadyRunning(stream')
      ]_vars

\* the positions of a client inside stop() and inside close()
AdminPcs == {"stop_mark", "stop_drain", "stop_clear", "stop_stream",
             "stop_close", "close_drain"}

\* C35: under every interleaving of capture callbacks, reads, subscribe(),
\* close(), start() and stop(), each close() and stop() call finishes its
\* drain loop and returns, and the hub lock is always eventually released.
C35_AdminTerminates ==
    /\ \A t \in Clients : (pc[t] \in AdminPcs) ~> (pc[t] = "idle")
    /\ (lock # 0) ~> (lock = 0)

\* a stop() holds the lock and drains a queue that is not empty while a
\* callback in flight is about to push to the same queue
C35_Witness ==
    \E t \in Clients : \E s \in StreamIds :
        /\ pc[t] = "stop_drain" /\ lock = t
        /\ queue[Head(iter[t])] # <<>>
        /\ cbpc[s] = "put" /\ Head(cbsubs[s]) = Head(iter[t])

\* what close() of subscriber i must leave alone
OthersUntouched(i) ==
    /\ \A j \in SubIds \ {i} :
         /\ (j \in subscribers') = (j \in subscribers)
         /\ closed'[j] = closed[j]
         /\ queue'[j] = queue[j]
    /\ stream' = stream
    /\ streamState' = streamState
    /\ frame_sequence' = frame_sequence
    /\ next_subscriber_id' = next_subscriber_id

\* C36: closing a reader leaves every other subscriber's table entry,
\* closed flag and queue contents unchanged, and leaves the stream, the
\* running state, the sequence counter and the ID counter unchanged.
C36_CloseFrame ==
    [][\A t \in Clients :
         /\ \A i \in SubIds : CloseLock(t, i) => OthersUntouched(i)
         /\ CloseDrain(t) => OthersUntouched(arg[t])
      ]_vars

\* subscriber 1 was closed with a frame in its queue and drained, on a
\* running hub whose other subscriber keeps its entry and its frame
C36_Witness ==
    /\ drained[1] /\ closed[1] /\ 1 \notin subscribers /\ queue[1] = <<>>
    /\ got[1] = <<>> /\ subAt[1] = 0 /\ captured >= 1 /\ drops[1] = 0
    /\ 2 \in subscribers /\ ~closed[2] /\ queue[2] # <<>>
    /\ stream # 0 /\ streamState[stream] = "active"
    /\ "close" \notin idem /\ \A t \in Clients : pc[t] = "idle"

\* C37: subscribe() on a stopped hub succeeds and changes neither the
\* running state nor the sequence counter; a later start() keeps that
\* subscriber in the table, and the subscriber then receives the frames of
\* the new session starting at sequence 0.
C37_SubscribeWhileStopped ==
    /\ [][/\ \A t \in Clients : \A m \in MaxFramesArgs \cup {2} :
               (Subscribe(t, m) /\ stream = 0) =>
                   /\ next_subscriber_id \in subscribers'
                   /\ stream' = 0
                   /\ streamState' = streamState
                   /\ frame_sequence' = frame_sequence
          /\ StartStep => (subscribers' = subscribers /\ closed' = closed)
         ]_vars
    /\ [](\A i \in Handles :
            (subOn[i] = "stopped" /\ stream # 0 /\ ~closed[i] /\ Delivered(i) # <<>>) =>
                Delivered(i)[1].seq = 0)

\* C38: when two save() calls for voices with different UUIDs, or a save()
\* and a delete() of different UUIDs, run concurrently on one repository,
\* then after both have completed the index reflects both operations: every
\* voice whose last completed call saved it is found by exists(), and a
\* deleted one is not, under every interleaving of the reads and writes of
\* the index.
C38_NoLostUpdate ==
    (\A k \in RepoTasks : rpc[k] = "idle") =>
        \A v \in RepoTasks : Exists(v) <=> v \in present

====
